---- MODULE Spec2Model ----
(***************************************************************************)
(* Model of the Azure Content Understanding client of esgocr:              *)
(*   - Settings.__post_init__, the client constructor and _get_headers,    *)
(*   - AzureContentUnderstandingClient.begin_analyze,                      *)
(*   - AzureContentUnderstandingClient.poll_result, in its copies          *)
(*     (analyze_all_bills, analyze_multi_periods, create_multi_analyzer,   *)
(*     create_simple_analyzer_copy).                                       *)
(* Text on which the code works character by character (a status, a file   *)
(* location, an endpoint) is a sequence of one-character strings, so that  *)
(* str.lower(), str.rstrip and the substring test `in` are computed.       *)
(* Credentials, header names and header values are TLA+ strings: the code  *)
(* only tests them for emptiness and equality and concatenates them.       *)
(* JSON values and Optional[str] values are tagged records.                *)
(***************************************************************************)
EXTENDS Integers, Sequences, FiniteSets, TLC

\* ------------------------------------------------------------------ bounds
\* the longest scripted sequence of poll responses the server holds
MaxScript == 3
\* the largest timeout_seconds a caller passes
MaxTimeout == 2
\* the largest polling_interval_seconds a caller passes
MaxInterval == 2
\* the most clock units the loop entry, or a GET with its oversleep, may add
MaxJitter == 1
\* the longest generated text given to parse_consumption
MaxText == 3
\* the latest time the shared clock of the threads reaches
MaxClock == 4
\* the most files the glob of the batch driver finds
MaxDocs == 2
\* the timeout the drivers give poll_result (60 * 5 seconds in the source),
\* scaled down so that a wait can outlast it within MaxScript polls
BatchTimeout == 2

\* -------------------------------------------------------------------- text
str_empty == <<>>
str_succeeded == <<"s", "u", "c", "c", "e", "e", "d", "e", "d">>
str_ready == <<"r", "e", "a", "d", "y">>
str_failed == <<"f", "a", "i", "l", "e", "d">>
S_Succeeded == <<"S", "u", "c", "c", "e", "e", "d", "e", "d">>
S_SUCCEEDED == <<"S", "U", "C", "C", "E", "E", "D", "E", "D">>
S_Ready == <<"R", "e", "a", "d", "y">>
S_Failed == <<"F", "a", "i", "l", "e", "d">>
S_FAILED == <<"F", "A", "I", "L", "E", "D">>
S_Running == <<"R", "u", "n", "n", "i", "n", "g">>
str_opurl == <<"o", "p", "/", "1">>

UpperLetters == <<"A", "B", "C", "D", "E", "F", "G", "H", "I", "J", "K", "L", "M",
                  "N", "O", "P", "Q", "R", "S", "T", "U", "V", "W", "X", "Y", "Z">>
LowerLetters == <<"a", "b", "c", "d", "e", "f", "g", "h", "i", "j", "k", "l", "m",
                  "n", "o", "p", "q", "r", "s", "t", "u", "v", "w", "x", "y", "z">>

\* one character of str.lower(): an ASCII capital becomes its small letter
LowerChar(c) ==
    IF \E i \in DOMAIN UpperLetters : UpperLetters[i] = c
    THEN LowerLetters[CHOOSE i \in DOMAIN UpperLetters : UpperLetters[i] = c]
    ELSE c

\* a wrong lower(): the text is left as it is
LowerIdentity(s) == s

\* str.lower()
Lower(s) == [i \in DOMAIN s |-> LowerChar(s[i])]

\* `sub in s` for two texts
Contains(sub, s) ==
    \E i \in 1..(Len(s) - Len(sub) + 1) : SubSeq(s, i, i + Len(sub) - 1) = sub

\* s starts with prefix (the claims' notion of a scheme prefix; the code has
\* no such test)
StartsWith(s, prefix) ==
    Len(s) >= Len(prefix) /\ SubSeq(s, 1, Len(prefix)) = prefix

\* str.rstrip("/")
RECURSIVE RStripSlash(_)
RStripSlash(s) ==
    IF s # <<>> /\ s[Len(s)] = "/" THEN RStripSlash(SubSeq(s, 1, Len(s) - 1))
    ELSE s

\* ------------------------------------------------------------- JSON values
JNull == [type |-> "null"]
JStr(s) == [type |-> "str", val |-> s]

JInt(n) == [type |-> "int", int |-> n]
JBool(b) == [type |-> "bool", bool |-> b]
JList(items) == [type |-> "list", items |-> items]
JObj(members) == [type |-> "object", members |-> members]

\* a finite float, kept as the exact decimal fraction num / den with den a
\* power of ten and no common factor 10, so that equal floats are equal values
RECURSIVE JFloat(_, _)
JFloat(num, den) ==
    IF den > 1 /\ num % 10 = 0 THEN JFloat(num \div 10, den \div 10)
    ELSE [type |-> "float", num |-> num, den |-> den]

\* the floats inf, -inf and nan
JFloatSpecial(name) == [type |-> "float", special |-> name]

\* dict.get(key, default)
DictGet(d, key, default) == IF key \in DOMAIN d THEN d[key] ELSE default

\* d1.update(d2), as the new value of d1
DictUpdate(d1, d2) ==
    [k \in DOMAIN d1 \cup DOMAIN d2 |-> IF k \in DOMAIN d2 THEN d2[k] ELSE d1[k]]

\* no value: None in a result slot
NoResult == [none |-> TRUE]

\* Python truth of an Optional[str]: None and "" are false
Truthy(v) == v # JNull /\ v.val # ""

\* str(x) inside an f-string
Format(v) == IF v = JNull THEN "None" ELSE v.val

\* a wrong raise_for_status: only the 5xx status codes raise
RaisesForServerError(code) == 500 <= code /\ code < 600

\* response.raise_for_status(): HTTPError for a 4xx or 5xx status code
RaisesForStatus(code) == 400 <= code /\ code < 600

\* ------------------------------------------------------ analysis payloads
\* the dict {}
EmptyDict == JObj([k \in {} |-> JNull])

\* what stands under a field's name when the name is missing
Absent == [type |-> "absent"]
txt_period == <<"2", "0", "2", "4", "-", "0", "1">>

\* the field mapping with the three names, each present unless Absent
FieldMapping(bp, ec, mbp) ==
    LET given == [k \in {"BillingPeriod", "ElectricityConsumption",
                         "MultipleBillingPeriods"} |->
                     IF k = "BillingPeriod" THEN bp
                     ELSE IF k = "ElectricityConsumption" THEN ec ELSE mbp]
    IN  JObj([k \in { n \in DOMAIN given : given[n] # Absent } |-> given[k]])

\* result["result"] with one content item
WithItem(item) == JObj([k \in {"contents"} |-> JList(<<item>>)])
WithFields(fields) == WithItem(JObj([k \in {"fields"} |-> fields]))

\* the analysis results a poll body may carry: both fields extracted, no
\* field mapping, a field that is null, no content item
AnalysisResults ==
    { WithFields(FieldMapping(JObj([k \in {"valueString"} |-> JStr(txt_period)]),
                              JObj([k \in {"valueNumber"} |-> JInt(1234)]),
                              Absent)),
      WithItem(EmptyDict),
      WithFields(FieldMapping(JNull, Absent, Absent)),
      JObj([k \in {"contents"} |-> JList(<<>>)]) }

\* ------------------------------------------------------------------- state
VARIABLES
    cfg_pc,             \* "new", "settings", "client", "failed"
    cfg_args,           \* the keyword arguments given to Settings, or NoResult
    settings,           \* the Settings object, or NoResult
    client_endpoint,    \* self._endpoint
    client_api_version, \* self._api_version
    client_headers,     \* self._headers
    cfg_raised          \* the ValueError message of the construction, or ""

cfgVars ==
    << cfg_pc, cfg_args, settings, client_endpoint, client_api_version,
       client_headers, cfg_raised >>

VARIABLES
    fs,                 \* the local file system: path -> [kind, bytes]
    ba_pc,              \* "idle", "done"
    file_location,      \* the argument of begin_analyze
    ba_post,            \* the POST request sent, or NoResult
    ba_response,        \* the response begin_analyze returned, or NoResult
    ba_raised           \* the exception begin_analyze raised, or ""

baVars == << fs, ba_pc, file_location, ba_post, ba_response, ba_raised >>

VARIABLES
    variant,                   \* which file's poll_result runs
    submit_headers,            \* response.headers of the submission
    timeout_seconds,
    polling_interval_seconds,
    scriptLen,                 \* how many responses the server's script holds
    pc,                        \* "idle", "loop", "get", "sleep", "done"
    operation_location,
    start_time,
    now,                       \* time.time()
    elapsed_time,
    responses,                 \* the responses received, in order
    gets,                      \* requests.get calls issued
    sleeps,                    \* the arguments of the time.sleep calls, in order
    returned,                  \* the value poll_result returned, or NoResult
    raised,                    \* the exception poll_result raised, or ""
    error_arg,                 \* what the exception's message was built from
    last_get                   \* the last GET request: url and headers

pollVars ==
    << variant, submit_headers, timeout_seconds, polling_interval_seconds,
       scriptLen, pc, operation_location, start_time, now, elapsed_time,
       responses, gets, sleeps, returned, raised, error_arg, last_get >>

VARIABLES
    consumption_str,    \* the argument of parse_consumption, or NoResult
    parsed              \* what parse_consumption returned, or NoResult

parseVars == << consumption_str, parsed >>

VARIABLES
    main_result,        \* main()'s result: what poll_result returned, or NoResult
    billing_period,     \* main() of analyze_multi_periods: the local
    consumption,        \* main() of analyze_multi_periods: the local
    standardized_data,  \* main() of analyze_multi_periods: the local list
    raw_output,         \* the text printed as "Raw output", or NoResult
    ex_pc,              \* "idle", "done", "raised"
    ex_raised,          \* the exception that left the extraction, or ""
    runs,               \* how many times the extraction ran on this payload
    first_run           \* the payload and the values of the first run

exVars ==
    << main_result, billing_period, consumption, standardized_data,
       raw_output, ex_pc, ex_raised, runs, first_run >>

VARIABLES
    bill_files,         \* main() of analyze_all_bills: the list of the glob
    doc,                \* the position of the for loop in bill_files
    attempts,           \* the file locations given to begin_analyze, in order
    results,            \* main(): the list of extracted records
    summary,            \* the content of analysis_summary.json, or NoResult
    outcomes,           \* for each finished document: what begin_analyze and
                        \* poll_result gave (the exception, or the payload)
    drv_pc              \* "start", "submit", "poll", "summary", "done"

drvVars == << bill_files, doc, attempts, results, summary, outcomes, drv_pc >>

VARIABLES
    analyzer_definition, \* create_multi_analyzer.main: the definition loaded
    prov_pc,            \* "start", "create", "poll", "done"
    deletes,            \* the status codes of the responses to DELETE
    delete_report,      \* what main() printed about the delete
    creates,            \* the bodies PUT by create_analyzer
    create_response,    \* the response create_analyzer returned, or NoResult
    prov_report,        \* what main() printed about the creation
    prov_raised         \* the exception that left main(), or ""

provVars ==
    << analyzer_definition, prov_pc, deletes, delete_report, creates,
       create_response, prov_report, prov_raised >>

VARIABLES
    frames,             \* for each thread: the locals of its begin_analyze and
                        \* poll_result calls, and where it stands
    clock               \* time.time(), the one clock all threads read

thrVars == << frames, clock >>

vars ==
    << cfgVars, baVars, pollVars, parseVars, exVars, drvVars, provVars,
       thrVars >>

\* ------------------------------------------------- Settings and the client
KeyPlaceholder == "AZURE_CONTENT_UNDERSTANDING_SUBSCRIPTION_KEY"
TokenPlaceholder == "AZURE_CONTENT_UNDERSTANDING_AAD_TOKEN"
DefaultUserAgent == "cu-sample-code"

\* main()'s endpoint (the host is abbreviated), the same with a trailing
\* slash, and main()'s API version
endpoint_main ==
    <<"h", "t", "t", "p", "s", ":", "/", "/", "e", "s", "g">>
endpoint_slash ==
    <<"h", "t", "t", "p", "s", ":", "/", "/", "e", "s", "g", "/">>
api_version_main ==
    <<"2", "0", "2", "4", "-", "1", "2", "-", "0", "1", "-", "p", "r", "e", "v", "i", "e", "w">>

\* the credentials, endpoints and versions a caller may configure
KeyInputs == { JNull, JStr(""), JStr(KeyPlaceholder), JStr("key-1") }
TokenInputs == { JNull, JStr(""), JStr(TokenPlaceholder), JStr("token-1") }
EndpointInputs == { str_empty, endpoint_main, endpoint_slash }
ApiVersionInputs == { str_empty, api_version_main }

\* Settings.__post_init__: key_not_provided
KeyNotProvided(key) == ~Truthy(key) \/ key = JStr(KeyPlaceholder)

\* Settings.__post_init__: token_not_provided
TokenNotProvided(token) == ~Truthy(token) \/ token = JStr(TokenPlaceholder)

\* a wrong test: only a missing key and a None token are rejected
SettingsRejectsNone(key, token) == KeyNotProvided(key) /\ token = JNull

\* Settings.__post_init__ raises ValueError
SettingsRejects(key, token) == KeyNotProvided(key) /\ TokenNotProvided(token)

\* Settings.token_provider: None, or a callable that returns the token
NoProvider == [type |-> "null"]
TokenProvider(aad_token) ==
    IF aad_token = JNull THEN NoProvider
    ELSE [type |-> "callable", token |-> aad_token]

\* `token_provider and token_provider()`
CallProvider(provider) ==
    IF provider = NoProvider THEN JNull ELSE provider.token

\* AzureContentUnderstandingClient._get_headers
GetHeaders(subscription_key, api_token, x_ms_useragent) ==
    IF Truthy(subscription_key)
    THEN [h \in {"Ocp-Apim-Subscription-Key", "x-ms-useragent"} |->
            IF h = "Ocp-Apim-Subscription-Key" THEN subscription_key.val
            ELSE x_ms_useragent]
    ELSE [h \in {"Authorization", "x-ms-useragent"} |->
            IF h = "Authorization" THEN "Bearer " \o Format(api_token)
            ELSE x_ms_useragent]

\* the ValueError of AzureContentUnderstandingClient.__init__, or "" for none
ClientInitError(endpoint, api_version, subscription_key, token_provider) ==
    IF ~Truthy(subscription_key) /\ token_provider = NoProvider
    THEN "Either subscription key or token provider must be provided"
    ELSE IF api_version = str_empty THEN "API version must be provided"
    ELSE IF endpoint = str_empty THEN "Endpoint must be provided"
    ELSE ""

NoHeaders == [h \in {} |-> ""]

CfgInit ==
    /\ cfg_pc = "new"
    /\ cfg_args = NoResult
    /\ settings = NoResult
    /\ client_endpoint = str_empty
    /\ client_api_version = str_empty
    /\ client_headers = NoHeaders
    /\ cfg_raised = ""

\* Settings(endpoint=..., api_version=..., subscription_key=..., aad_token=...)
SettingsInit ==
    /\ cfg_pc = "new"
    /\ \E key \in KeyInputs, token \in TokenInputs,
          e \in EndpointInputs, ver \in ApiVersionInputs :
        LET s == [endpoint |-> e, api_version |-> ver,
                  subscription_key |-> key, aad_token |-> token]
        IN  /\ cfg_args' = s
            /\ IF SettingsRejects(key, token)
               THEN /\ cfg_raised' = "Either 'subscription_key' or 'aad_token' must be provided"
                    /\ cfg_pc' = "failed"
                    /\ UNCHANGED settings
               ELSE /\ settings' = s
                    /\ cfg_pc' = "settings"
                    /\ UNCHANGED cfg_raised
    /\ UNCHANGED << client_endpoint, client_api_version, client_headers >>
    /\ UNCHANGED << baVars, pollVars, parseVars, exVars, drvVars, provVars,
                    thrVars >>

\* AzureContentUnderstandingClient(settings.endpoint, settings.api_version,
\*     subscription_key=settings.subscription_key,
\*     token_provider=settings.token_provider)
ClientInit ==
    /\ cfg_pc = "settings"
    /\ LET provider == TokenProvider(settings.aad_token)
           err == ClientInitError(settings.endpoint, settings.api_version,
                                  settings.subscription_key, provider)
       IN  IF err # ""
           THEN /\ cfg_raised' = err
                /\ cfg_pc' = "failed"
                /\ UNCHANGED << client_endpoint, client_api_version, client_headers >>
           ELSE /\ client_endpoint' = RStripSlash(settings.endpoint)
                /\ client_api_version' = settings.api_version
                /\ client_headers' = GetHeaders(settings.subscription_key,
                                                CallProvider(provider),
                                                DefaultUserAgent)
                /\ cfg_pc' = "client"
                /\ UNCHANGED cfg_raised
    /\ UNCHANGED << cfg_args, settings >>
    /\ UNCHANGED << baVars, pollVars, parseVars, exVars, drvVars, provVars,
                    thrVars >>

\* the state after main() has built Settings and the client from a key and a
\* token (both accepted by the two constructors)
Constructed(key, token) ==
    LET s == [endpoint |-> endpoint_main, api_version |-> api_version_main,
              subscription_key |-> key, aad_token |-> token]
    IN  /\ cfg_pc = "client"
        /\ cfg_args = s
        /\ settings = s
        /\ client_endpoint = RStripSlash(endpoint_main)
        /\ client_api_version = api_version_main
        /\ client_headers = GetHeaders(key, CallProvider(TokenProvider(token)),
                                       DefaultUserAgent)
        /\ cfg_raised = ""

\* ------------------------------------------------------------ begin_analyze
str_https == <<"h", "t", "t", "p", "s", ":", "/", "/">>
str_http == <<"h", "t", "t", "p", ":", "/", "/">>
str_analyzers_path ==
    <<"/", "c", "o", "n", "t", "e", "n", "t", "u", "n", "d", "e", "r", "s", "t", "a", "n", "d", "i", "n", "g",
      "/", "a", "n", "a", "l", "y", "z", "e", "r", "s", "/">>
str_analyze_query ==
    <<":", "a", "n", "a", "l", "y", "z", "e", "?", "a", "p", "i", "-", "v", "e", "r", "s", "i", "o", "n", "=">>
analyzer_id_main ==
    <<"u", "t", "i", "l", "i", "t", "y", "-", "b", "i", "l", "l", "-", "a", "n", "a", "l", "y", "z", "e", "r">>

\* the file locations a driver may pass
loc_png == <<"a", ".", "p", "n", "g">>
loc_dir == <<"d", ".", "x">>
loc_https == <<"h", "t", "t", "p", "s", ":", "/", "/", "h", "/", "a">>
loc_http == <<"h", "t", "t", "p", ":", "/", "/", "h", "/", "a">>
loc_embedded == <<"s", "e", "e", " ", "h", "t", "t", "p", ":", "/", "/", "h">>
loc_ftp == <<"f", "t", "p", ":", "/", "/", "h", "/", "a">>
loc_upper == <<"H", "T", "T", "P", ":", "/", "/", "h">>
loc_cwd == <<".">>
FileLocations ==
    { str_empty, loc_png, loc_dir, loc_https, loc_http, loc_embedded, loc_ftp,
      loc_upper }

\* the file systems the program may run on: the working directory always
\* exists; a file may be empty; a file may sit at a path that reads as a URL
File(bytes) == [kind |-> "file", bytes |-> bytes]
Directory == [kind |-> "dir"]
FileSystems ==
    { (loc_cwd :> Directory),
      (loc_cwd :> Directory) @@ (loc_png :> File(<<137, 80, 78>>))
          @@ (loc_dir :> Directory) @@ (loc_http :> File(<<1>>)),
      (loc_cwd :> Directory) @@ (loc_png :> File(<<>>)) }

\* the path pathlib.Path(file_location) stands for: Path("") is Path(".")
PathOf(loc) == IF loc = str_empty THEN loc_cwd ELSE loc

\* Path(file_location).exists()
PathExists(files, loc) == PathOf(loc) \in DOMAIN files

\* the OSError of open(file_location, "rb") on an existing path, or ""
OpenError(files, loc) ==
    IF loc = str_empty THEN "FileNotFoundError"
    ELSE IF files[loc].kind = "dir" THEN "IsADirectoryError"
    ELSE ""

\* `"https://" in file_location or "http://" in file_location`
LooksLikeUrl(loc) == Contains(str_https, loc) \/ Contains(str_http, loc)

\* AzureContentUnderstandingClient._get_analyze_url
GetAnalyzeUrl(endpoint, api_version, id) ==
    endpoint \o str_analyzers_path \o id \o str_analyze_query \o api_version

\* the responses the server may give to the POST: status code and headers
SubmitHeaders ==
    { [x \in {} |-> str_empty],
      [x \in {"operation-location"} |-> str_empty],
      [x \in {"operation-location"} |-> str_opurl] }
PostResponses ==
    { [status_code |-> c, headers |-> h] : c \in {202, 404, 500}, h \in SubmitHeaders }

BaInit ==
    /\ ba_pc = "idle"
    /\ file_location = str_empty
    /\ ba_post = NoResult
    /\ ba_response = NoResult
    /\ ba_raised = ""

\* begin_analyze(analyzer_id, file_location): the classification of the
\* target, the POST and raise_for_status
BeginAnalyzeCall(loc) ==
    \E resp \in PostResponses :
        /\ file_location' = loc
        /\ LET url == GetAnalyzeUrl(client_endpoint, client_api_version,
                                    analyzer_id_main)
               Post(body, content_type) ==
                   /\ ba_post' = [url |-> url,
                                  headers |-> DictUpdate(
                                      [h \in {"Content-Type"} |-> content_type],
                                      client_headers),
                                  body |-> body]
                   /\ IF RaisesForStatus(resp.status_code)
                      THEN /\ ba_raised' = "HTTPError"
                           /\ ba_response' = NoResult
                      ELSE /\ ba_response' = resp
                           /\ ba_raised' = ""
           IN  IF PathExists(fs, loc)
               THEN IF OpenError(fs, loc) # ""
                    THEN /\ ba_raised' = OpenError(fs, loc)
                         /\ ba_post' = NoResult
                         /\ ba_response' = NoResult
                    ELSE Post([data |-> fs[loc].bytes], "application/octet-stream")
               ELSE IF LooksLikeUrl(loc)
               THEN Post([json |-> [url |-> loc]], "application/json")
               ELSE /\ ba_raised' = "ValueError"
                    /\ ba_post' = NoResult
                    /\ ba_response' = NoResult
        /\ UNCHANGED fs

\* one call of begin_analyze, with any file location
BeginAnalyze ==
    /\ ba_pc = "idle"
    /\ ba_pc' = "done"
    /\ \E loc \in FileLocations : BeginAnalyzeCall(loc)
    /\ UNCHANGED << cfgVars, pollVars, parseVars, exVars, drvVars, provVars,
                    thrVars >>

\* ---------------------------------------------------------------- poll_result
\* the status values a poll body may carry; NoStatusKey: the key is absent
NoStatusKey == [type |-> "absent"]
StatusValues ==
    { NoStatusKey, JNull, JStr(str_empty), JStr(S_Running),
      JStr(S_Succeeded), JStr(S_SUCCEEDED), JStr(S_Ready), JStr(str_ready),
      JStr(S_Failed), JStr(S_FAILED) }

\* the decoded body of the k-th poll response: the status (when present) and
\* a payload that tells the responses apart
Body(st, k) ==
    IF st = NoStatusKey THEN [payload |-> k]
    ELSE [status |-> st, payload |-> k]

\* the decoded body of a finished analysis: status, payload and result
ResultBody(st, k, r) == [status |-> st, payload |-> k, result |-> r]

\* the responses the server may give to the k-th GET
Responses(k) ==
    { [code |-> 200, body |-> Body(st, k)] : st \in StatusValues }
    \cup { [code |-> 200, body |-> ResultBody(st, k, r)] :
             st \in {JStr(S_Succeeded), JStr(str_succeeded)},
             r \in AnalysisResults }
    \cup { [code |-> c, body |-> Body(st, k)] :
             c \in {304, 404, 503},
             st \in {JStr(S_Running), JStr(S_Succeeded), JStr(S_Failed)} }

\* the copies of poll_result: "analyze" is the text shared, word for word, by
\* analyze_all_bills.py and analyze_multi_periods.py
Variants == { "analyze", "create_multi_analyzer", "create_simple_analyzer_copy" }
AnalysisVariants == { "analyze" }
ProvisioningVariants == { "create_multi_analyzer", "create_simple_analyzer_copy" }

\* a wrong success test: every status that is not `failed` ends the wait
SuccessUnlessFailed(status) == status # str_failed

\* the success test of analyze_all_bills / analyze_multi_periods
SuccessAnalysis(status) == status = str_succeeded

\* the success test of create_multi_analyzer
SuccessMulti(status) == status = str_succeeded \/ status = str_ready

\* the success test of create_simple_analyzer_copy
SuccessCopy(status) == status = str_succeeded

IsSuccess(v, status) ==
    CASE v \in AnalysisVariants -> SuccessAnalysis(status)
      [] v = "create_multi_analyzer" -> SuccessMulti(status)
      [] v = "create_simple_analyzer_copy" -> SuccessCopy(status)

\* a wrong failed test: an empty status counts as failed too
IsFailedOrEmpty(status) == status = str_failed \/ status = str_empty

\* `status == "failed"`
IsFailed(status) == status = str_failed

\* what the RuntimeError of a failed status is built from
FailedErrorArg(v, result) == IF v \in AnalysisVariants THEN result ELSE NoResult

\* a wrong message: the measured elapsed time instead of the timeout
TimeoutErrorElapsed(timeout, elapsed) == [seconds |-> elapsed]

\* what the TimeoutError message is built from:
\* f"Operation timed out after {timeout_seconds:.2f} seconds."
TimeoutErrorArg(timeout, elapsed) == [seconds |-> timeout]

\* a wrong test of the operation location: only None counts as missing
LocationIsNone(location) == FALSE

\* `not operation_location`
LocationMissing(location) == location = str_empty

PollInit ==
    /\ variant = "analyze"
    /\ submit_headers = [x \in {} |-> str_empty]
    /\ timeout_seconds = 0
    /\ polling_interval_seconds = 0
    /\ scriptLen = 0
    /\ pc = "idle"
    /\ operation_location = str_empty
    /\ start_time = 0
    /\ now = 0
    /\ elapsed_time = 0
    /\ responses = <<>>
    /\ gets = 0
    /\ sleeps = <<>>
    /\ returned = NoResult
    /\ raised = ""
    /\ error_arg = NoResult
    /\ last_get = NoResult

\* the call, the operation-location check and the start timestamp: v is the
\* copy of poll_result, h the headers of the response given, t and i the
\* timeout and the interval, n the length of the server's script, d the time
\* that passes before the loop reads the clock
PollEnterCall(v, h, t, i, n, d) ==
    /\ variant' = v
    /\ submit_headers' = h
    /\ timeout_seconds' = t
    /\ polling_interval_seconds' = i
    /\ scriptLen' = n
    /\ operation_location' = DictGet(h, "operation-location", str_empty)
    /\ IF LocationMissing(operation_location')
       THEN /\ raised' = "ValueError"
            /\ pc' = "done"
            /\ UNCHANGED << start_time, now >>
       ELSE /\ start_time' = now
            /\ now' = now + d
            /\ pc' = "loop"
            /\ UNCHANGED raised
    /\ UNCHANGED << elapsed_time, responses, gets, sleeps, returned, error_arg,
                    last_get >>

\* one call of poll_result, with any arguments
PollEnter ==
    /\ pc = "idle"
    /\ \E v \in Variants, h \in SubmitHeaders, t \in 0..MaxTimeout,
          i \in 1..MaxInterval, n \in 1..MaxScript, d \in 0..MaxJitter :
        PollEnterCall(v, h, t, i, n, d)
    /\ UNCHANGED << cfgVars, baVars, parseVars, exVars, drvVars, provVars,
                    thrVars >>

\* a wrong timeout test: an elapsed time equal to the timeout is too late
PollCheckTimeoutInclusive ==
    /\ pc = "loop"
    /\ elapsed_time' = now - start_time
    /\ IF elapsed_time' >= timeout_seconds
       THEN /\ raised' = "TimeoutError"
            /\ error_arg' = TimeoutErrorArg(timeout_seconds, elapsed_time')
            /\ pc' = "done"
       ELSE /\ pc' = "get"
            /\ UNCHANGED << raised, error_arg >>
    /\ UNCHANGED << variant, submit_headers, timeout_seconds,
                    polling_interval_seconds, scriptLen, operation_location,
                    start_time, now, responses, gets, sleeps, returned,
                    last_get >>
    /\ UNCHANGED << cfgVars, baVars, parseVars, exVars, drvVars, provVars,
                    thrVars >>

\* a wrong timeout test: it reads the elapsed time measured one iteration ago
PollCheckTimeoutStale ==
    /\ pc = "loop"
    /\ elapsed_time' = now - start_time
    /\ IF elapsed_time > timeout_seconds
       THEN /\ raised' = "TimeoutError"
            /\ error_arg' = TimeoutErrorArg(timeout_seconds, elapsed_time')
            /\ pc' = "done"
       ELSE /\ pc' = "get"
            /\ UNCHANGED << raised, error_arg >>
    /\ UNCHANGED << variant, submit_headers, timeout_seconds,
                    polling_interval_seconds, scriptLen, operation_location,
                    start_time, now, responses, gets, sleeps, returned,
                    last_get >>
    /\ UNCHANGED << cfgVars, baVars, parseVars, exVars, drvVars, provVars,
                    thrVars >>

\* the top of the loop: elapsed time and the timeout test
PollCheckTimeout ==
    /\ pc = "loop"
    /\ elapsed_time' = now - start_time
    /\ IF elapsed_time' > timeout_seconds
       THEN /\ raised' = "TimeoutError"
            /\ error_arg' = TimeoutErrorArg(timeout_seconds, elapsed_time')
            /\ pc' = "done"
       ELSE /\ pc' = "get"
            /\ UNCHANGED << raised, error_arg >>
    /\ UNCHANGED << variant, submit_headers, timeout_seconds,
                    polling_interval_seconds, scriptLen, operation_location,
                    start_time, now, responses, gets, sleeps, returned,
                    last_get >>
    /\ UNCHANGED << cfgVars, baVars, parseVars, exVars, drvVars, provVars,
                    thrVars >>

\* the GET, raise_for_status, the decoding and the status dispatch
PollGet ==
    /\ pc = "get"
    /\ gets < scriptLen
    /\ \E r \in Responses(gets + 1) :
        /\ gets' = gets + 1
        /\ last_get' = [url |-> operation_location, headers |-> client_headers]
        /\ responses' = Append(responses, r)
        /\ IF RaisesForStatus(r.code)
           THEN /\ raised' = "HTTPError"
                /\ error_arg' = [status_code |-> r.code]
                /\ pc' = "done"
                /\ UNCHANGED returned
           ELSE LET result == r.body
                    st == DictGet(result, "status", JStr(str_empty))
                IN  IF st.type # "str"
                    THEN /\ raised' = "AttributeError"
                         /\ pc' = "done"
                         /\ UNCHANGED << returned, error_arg >>
                    ELSE LET status == Lower(st.val)
                         IN  IF IsSuccess(variant, status)
                             THEN /\ returned' = result
                                  /\ pc' = "done"
                                  /\ UNCHANGED << raised, error_arg >>
                             ELSE IF IsFailed(status)
                             THEN /\ raised' = "RuntimeError"
                                  /\ error_arg' = FailedErrorArg(variant, result)
                                  /\ pc' = "done"
                                  /\ UNCHANGED returned
                             ELSE /\ pc' = "sleep"
                                  /\ UNCHANGED << returned, raised, error_arg >>
    /\ UNCHANGED << variant, submit_headers, timeout_seconds,
                    polling_interval_seconds, scriptLen, operation_location,
                    start_time, now, elapsed_time, sleeps >>
    /\ UNCHANGED << cfgVars, baVars, parseVars, exVars, drvVars, provVars,
                    thrVars >>

\* a wrong sleep: the next GET follows without a look at the clock
PollSleepNoCheck ==
    /\ pc = "sleep"
    /\ \E o \in 0..MaxJitter :
        now' = now + polling_interval_seconds + o
    /\ sleeps' = Append(sleeps, polling_interval_seconds)
    /\ pc' = "get"
    /\ UNCHANGED << variant, submit_headers, timeout_seconds,
                    polling_interval_seconds, scriptLen, operation_location,
                    start_time, elapsed_time, responses, gets, returned,
                    raised, error_arg, last_get >>
    /\ UNCHANGED << cfgVars, baVars, parseVars, exVars, drvVars, provVars,
                    thrVars >>

\* a wrong sleep: it returns at once, no time passes
PollSleepFrozen ==
    /\ pc = "sleep"
    /\ now' = now
    /\ sleeps' = Append(sleeps, polling_interval_seconds)
    /\ pc' = "loop"
    /\ UNCHANGED << variant, submit_headers, timeout_seconds,
                    polling_interval_seconds, scriptLen, operation_location,
                    start_time, elapsed_time, responses, gets, returned,
                    raised, error_arg, last_get >>
    /\ UNCHANGED << cfgVars, baVars, parseVars, exVars, drvVars, provVars,
                    thrVars >>

\* a wrong sleep: the default interval of 2 seconds, whatever the caller gave
PollSleepDefault ==
    /\ pc = "sleep"
    /\ \E o \in 0..MaxJitter :
        now' = now + 2 + o
    /\ sleeps' = Append(sleeps, 2)
    /\ pc' = "loop"
    /\ UNCHANGED << variant, submit_headers, timeout_seconds,
                    polling_interval_seconds, scriptLen, operation_location,
                    start_time, elapsed_time, responses, gets, returned,
                    raised, error_arg, last_get >>
    /\ UNCHANGED << cfgVars, baVars, parseVars, exVars, drvVars, provVars,
                    thrVars >>

\* time.sleep(polling_interval_seconds): between two readings of the clock
\* (the top of one iteration and the top of the next) at least the interval
\* passes, plus what the GET and an oversleep take
PollSleep ==
    /\ pc = "sleep"
    /\ \E o \in 0..MaxJitter :
        now' = now + polling_interval_seconds + o
    /\ sleeps' = Append(sleeps, polling_interval_seconds)
    /\ pc' = "loop"
    /\ UNCHANGED << variant, submit_headers, timeout_seconds,
                    polling_interval_seconds, scriptLen, operation_location,
                    start_time, elapsed_time, responses, gets, returned,
                    raised, error_arg, last_get >>
    /\ UNCHANGED << cfgVars, baVars, parseVars, exVars, drvVars, provVars,
                    thrVars >>

\* ---------------------------------------------------------- parse_consumption
Digits == <<"0", "1", "2", "3", "4", "5", "6", "7", "8", "9">>
IsDigit(c) == \E i \in DOMAIN Digits : Digits[i] = c
DigitVal(c) == (CHOOSE i \in DOMAIN Digits : Digits[i] = c) - 1
IsSign(c) == c = "-" \/ c = "+"

str_inf == <<"i", "n", "f">>
str_infinity == <<"i", "n", "f", "i", "n", "i", "t", "y">>
str_nan == <<"n", "a", "n">>

\* a wrong replace: the text is left as it is
RemoveNothing(t, c) == t

\* str.replace(c, ''): every occurrence of the character is removed
RemoveChar(t, c) == SelectSeq(t, LAMBDA x : x # c)

\* the ways for the pattern [-+]?\d*\.?\d+ to match at position i: s sign
\* characters, k digits, d points, then m digits
MatchWays(t, i) ==
    { w \in [s : 0..1, k : 0..Len(t), d : 0..1, m : 1..Len(t)] :
        LET a == i + w.s
            b == a + w.k
            c == b + w.d
            e == c + w.m
        IN  /\ e - 1 <= Len(t)
            /\ w.s = 1 => IsSign(t[i])
            /\ \A j \in a..(b - 1) : IsDigit(t[j])
            /\ w.d = 1 => t[b] = "."
            /\ \A j \in c..(e - 1) : IsDigit(t[j]) }

\* the order in which the backtracking matcher tries the ways: every
\* quantifier is greedy, the earlier one first
TriedBefore(w1, w2) ==
    \/ w1.s > w2.s
    \/ w1.s = w2.s /\ w1.k > w2.k
    \/ w1.s = w2.s /\ w1.k = w2.k /\ w1.d > w2.d
    \/ w1.s = w2.s /\ w1.k = w2.k /\ w1.d = w2.d /\ w1.m > w2.m

\* the length of the match at position i (0: the pattern does not match there)
MatchLen(t, i) ==
    IF MatchWays(t, i) = {} THEN 0
    ELSE LET w == CHOOSE w1 \in MatchWays(t, i) :
                      \A w2 \in MatchWays(t, i) : w1 = w2 \/ TriedBefore(w1, w2)
         IN  w.s + w.k + w.d + w.m

NoMatch == [found |-> FALSE]

\* re.search(r'[-+]?\d*\.?\d+', t): the match at the leftmost position where
\* the pattern matches; group is numeric_match.group(0)
RegexSearch(t) ==
    IF \A i \in DOMAIN t : MatchLen(t, i) = 0 THEN NoMatch
    ELSE LET i == CHOOSE i1 \in DOMAIN t :
                      /\ MatchLen(t, i1) > 0
                      /\ \A i2 \in 1..(i1 - 1) : MatchLen(t, i2) = 0
         IN  [found |-> TRUE, group |-> SubSeq(t, i, i + MatchLen(t, i) - 1)]

RECURSIVE NatOf(_)
NatOf(ds) ==
    IF ds = <<>> THEN 0
    ELSE 10 * NatOf(SubSeq(ds, 1, Len(ds) - 1)) + DigitVal(ds[Len(ds)])

RECURSIVE Pow10(_)
Pow10(n) == IF n = 0 THEN 1 ELSE 10 * Pow10(n - 1)

AllDigits(ds) == \A j \in DOMAIN ds : IsDigit(ds[j])

ValueError == [type |-> "ValueError"]

\* float(t) for a text without blanks, underscores and exponent: an optional
\* sign, then inf, infinity or nan in any letter case, or digits with at most
\* one point and at least one digit; ValueError for every other text
PyFloat(t) ==
    LET signed == t # <<>> /\ IsSign(t[1])
        sign == IF signed /\ t[1] = "-" THEN -1 ELSE 1
        body == IF signed THEN Tail(t) ELSE t
        word == Lower(body)
        points == { j \in DOMAIN body : body[j] = "." }
    IN  IF word = str_inf \/ word = str_infinity
        THEN JFloatSpecial(IF sign = -1 THEN "-inf" ELSE "inf")
        ELSE IF word = str_nan THEN JFloatSpecial("nan")
        ELSE IF points = {} /\ body # <<>> /\ AllDigits(body)
        THEN JFloat(sign * NatOf(body), 1)
        ELSE IF Cardinality(points) = 1 /\ Len(body) >= 2
        THEN LET p == CHOOSE j \in points : TRUE
                 whole == SubSeq(body, 1, p - 1)
                 frac == SubSeq(body, p + 1, Len(body))
             IN  IF AllDigits(whole) /\ AllDigits(frac)
                 THEN JFloat(sign * (NatOf(whole) * Pow10(Len(frac)) + NatOf(frac)),
                             Pow10(Len(frac)))
                 ELSE ValueError
        ELSE ValueError

\* parse_consumption(consumption_str)
parse_consumption(value) ==
    IF value.type \in {"int", "float", "bool"} THEN value
    ELSE IF value.type = "str"
    THEN LET stripped == RemoveChar(RemoveChar(value.val, ","), " ")
             numeric_match == RegexSearch(stripped)
             numeric_str == IF numeric_match.found THEN numeric_match.group
                            ELSE stripped
         IN  IF PyFloat(numeric_str) = ValueError THEN JInt(0)
             ELSE PyFloat(numeric_str)
    ELSE JInt(0)

\* the characters of the generated texts, and the texts up to a length
ParseAlphabet == {"0", "1", ".", ",", "-", "+", " ", "k"}
Texts(n) == UNION { [1..k -> ParseAlphabet] : k \in 0..n }

\* texts a bill may carry: "1,234.5 kWh", an em dash, the words of float()
txt_kwh == <<"1", ",", "2", "3", "4", ".", "5", " ", "k", "W", "h">>
txt_emdash == <<"U+2014">>
txt_Infinity == <<"I", "n", "f", "i", "n", "i", "t", "y">>
txt_neg_inf == <<"-", "i", "n", "f">>
NamedTexts == { txt_kwh, txt_emdash, str_inf, str_nan, txt_Infinity, txt_neg_inf }

\* the values json.loads may put into a period's consumption
ParseInputs ==
    { JNull, JInt(42), JInt(0), JFloat(15, 10), JBool(TRUE), JList(<<>>),
      JList(<<JInt(1)>>), JObj([k \in {} |-> JNull]) }
    \cup { JStr(t) : t \in Texts(MaxText) \cup NamedTexts }

ParseInit ==
    /\ consumption_str = NoResult
    /\ parsed = NoResult

\* one call of parse_consumption
CallParseConsumption ==
    /\ consumption_str = NoResult
    /\ \E x \in ParseInputs :
        /\ consumption_str' = x
        /\ parsed' = parse_consumption(x)
    /\ UNCHANGED << cfgVars, baVars, pollVars, exVars, drvVars, provVars,
                    thrVars >>

\* ------------------------------------------------------------- Python values
\* the outcome of an expression: a value, or the exception it raises
Ok(v) == [ok |-> TRUE, val |-> v]
Exc(e) == [ok |-> FALSE, exc |-> e]

\* v[key] for a text key: only a dict has text keys
Subscript(v, key) ==
    IF v.type = "object"
    THEN IF key \in DOMAIN v.members THEN Ok(v.members[key]) ELSE Exc("KeyError")
    ELSE Exc("TypeError")

\* v[0]: the first item of a list, the first character of a text; a decoded
\* dict has no key 0
SubscriptZero(v) ==
    CASE v.type = "list" ->
             IF v.items # <<>> THEN Ok(v.items[1]) ELSE Exc("IndexError")
      [] v.type = "str" ->
             IF v.val # <<>> THEN Ok(JStr(<<v.val[1]>>)) ELSE Exc("IndexError")
      [] v.type = "object" -> Exc("KeyError")
      [] OTHER -> Exc("TypeError")

\* v.get(key, default): only a dict has the method
MethodGet(v, key, default) ==
    IF v.type = "object" THEN Ok(DictGet(v.members, key, default))
    ELSE Exc("AttributeError")

\* one text for each character sequence: the keys of a dict are texts
RECURSIVE Join(_)
Join(chars) == IF chars = <<>> THEN "" ELSE chars[1] \o Join(Tail(chars))

\* `key in v`, the key given by its characters: a key of a dict, an item of
\* a list, a part of a text; None, numbers and booleans are not iterable
KeyIn(key, v) ==
    CASE v.type = "object" -> Ok(Join(key) \in DOMAIN v.members)
      [] v.type = "list" -> Ok(\E j \in DOMAIN v.items : v.items[j] = JStr(key))
      [] v.type = "str" -> Ok(Contains(key, v.val))
      [] OTHER -> Exc("TypeError")

\* --------------------------------------------------------------- json.loads
\* The decoder covers the grammar of the texts the model feeds it (JsonTexts):
\* arrays, objects, strings without escapes, unsigned integers and null,
\* written without blanks. A parse gives the value and the position after it.
Parsed(v, next) == [ok |-> TRUE, val |-> v, next |-> next]
NotParsed == [ok |-> FALSE]

\* the position of the next double quote at or after i (0: there is none)
QuoteFrom(t, i) ==
    IF \E j \in i..Len(t) : t[j] = "\""
    THEN CHOOSE j \in i..Len(t) :
             t[j] = "\"" /\ \A j2 \in i..(j - 1) : t[j2] # "\""
    ELSE 0

\* the position after the digits that start at i
RECURSIVE DigitsEnd(_, _)
DigitsEnd(t, i) ==
    IF i <= Len(t) /\ IsDigit(t[i]) THEN DigitsEnd(t, i + 1) ELSE i

HasAt(t, i, c) == i <= Len(t) /\ t[i] = c

RECURSIVE ParseValue(_, _)
RECURSIVE ParseItems(_, _, _)
RECURSIVE ParseMembers(_, _, _)

\* a string that opens at i
ParseString(t, i) ==
    IF HasAt(t, i, "\"") /\ QuoteFrom(t, i + 1) # 0
    THEN Parsed(SubSeq(t, i + 1, QuoteFrom(t, i + 1) - 1), QuoteFrom(t, i + 1) + 1)
    ELSE NotParsed

ParseValue(t, i) ==
    IF HasAt(t, i, "[")
    THEN IF HasAt(t, i + 1, "]") THEN Parsed(JList(<<>>), i + 2)
         ELSE ParseItems(t, i + 1, <<>>)
    ELSE IF HasAt(t, i, "{")
    THEN IF HasAt(t, i + 1, "}") THEN Parsed(EmptyDict, i + 2)
         ELSE ParseMembers(t, i + 1, EmptyDict.members)
    ELSE IF HasAt(t, i, "\"")
    THEN LET str == ParseString(t, i)
         IN  IF str.ok THEN Parsed(JStr(str.val), str.next) ELSE NotParsed
    ELSE IF i <= Len(t) /\ IsDigit(t[i])
    THEN IF t[i] = "0" /\ DigitsEnd(t, i) > i + 1 THEN NotParsed
         ELSE Parsed(JInt(NatOf(SubSeq(t, i, DigitsEnd(t, i) - 1))), DigitsEnd(t, i))
    ELSE IF i + 3 <= Len(t) /\ SubSeq(t, i, i + 3) = <<"n", "u", "l", "l">>
    THEN Parsed(JNull, i + 4)
    ELSE NotParsed

\* the items of an array from position i on, after the items in acc
ParseItems(t, i, acc) ==
    LET item == ParseValue(t, i)
    IN  IF ~item.ok THEN NotParsed
        ELSE IF HasAt(t, item.next, ",")
        THEN ParseItems(t, item.next + 1, Append(acc, item.val))
        ELSE IF HasAt(t, item.next, "]")
        THEN Parsed(JList(Append(acc, item.val)), item.next + 1)
        ELSE NotParsed

\* the members of an object from position i on, after the members in acc; a
\* key that occurs twice keeps its last value
ParseMembers(t, i, acc) ==
    LET key == ParseString(t, i)
    IN  IF ~key.ok \/ ~HasAt(t, key.next, ":") THEN NotParsed
        ELSE LET member == ParseValue(t, key.next + 1)
                 members == IF member.ok
                            THEN DictUpdate(acc, [k \in {Join(key.val)} |-> member.val])
                            ELSE acc
             IN  IF ~member.ok THEN NotParsed
                 ELSE IF HasAt(t, member.next, ",")
                 THEN ParseMembers(t, member.next + 1, members)
                 ELSE IF HasAt(t, member.next, "}")
                 THEN Parsed(JObj(members), member.next + 1)
                 ELSE NotParsed

\* a wrong decoder: a text that is not JSON gives a plain ValueError
JsonLoadsValueError(v) ==
    IF v.type # "str" THEN Exc("TypeError")
    ELSE LET Whole(r) == IF r.ok /\ r.next = Len(v.val) + 1 THEN Ok(r.val)
                         ELSE Exc("ValueError")
         IN  Whole(ParseValue(v.val, 1))

\* json.loads(v): TypeError for a value that is not text, JSONDecodeError for
\* a text that is not one JSON value
JsonLoads(v) ==
    IF v.type # "str" THEN Exc("TypeError")
    ELSE LET Whole(r) == IF r.ok /\ r.next = Len(v.val) + 1 THEN Ok(r.val)
                         ELSE Exc("JSONDecodeError")
         IN  Whole(ParseValue(v.val, 1))

\* --------------------------------------------------------------- extraction
\* the number of times the extraction is run on one payload
MaxRuns == 2

str_not_found == <<"N", "o", "t", " ", "f", "o", "u", "n", "d">>
str_unknown == <<"U", "n", "k", "n", "o", "w", "n">>
str_zero == <<"0">>
str_valueString ==
    <<"v", "a", "l", "u", "e", "S", "t", "r", "i", "n", "g">>
\* the two Chinese keys of a period, one token for each character
key_date_zh == "U+8ACBU+8868U+65E5U+671F"
key_use_zh == "U+7528U+96FBU+5EA6U+6578"

\* the texts MultipleBillingPeriods.valueString may carry
\* [{"period":"a","consumption":"1,5 k"},{"(date key)":"b","(consumption key)":12},7]
json_periods ==
    <<"[", "{", "\"", "p", "e", "r", "i", "o", "d", "\"", ":", "\"", "a",
      "\"", ",", "\"", "c", "o", "n", "s", "u", "m", "p", "t", "i", "o", "n",
      "\"", ":", "\"", "1", ",", "5", " ", "k", "\"", "}", ",", "{", "\"",
      "U+8ACB", "U+8868", "U+65E5", "U+671F", "\"", ":", "\"", "b", "\"",
      ",", "\"", "U+7528", "U+96FB", "U+5EA6", "U+6578", "\"", ":", "1", "2",
      "}", ",", "7", "]">>
\* [{}]
json_no_keys ==
    <<"[", "{", "}", "]">>
\* [{"consumption":"inf"}]
json_inf ==
    <<"[", "{", "\"", "c", "o", "n", "s", "u", "m", "p", "t", "i", "o", "n",
      "\"", ":", "\"", "i", "n", "f", "\"", "}", "]">>
\* []
json_empty_list ==
    <<"[", "]">>
\* {"period":"a"}
json_object ==
    <<"{", "\"", "p", "e", "r", "i", "o", "d", "\"", ":", "\"", "a", "\"",
      "}">>
\* [{"period"
json_cut ==
    <<"[", "{", "\"", "p", "e", "r", "i", "o", "d", "\"">>
\* [{"period":"a","(date key)":"b"},7]
json_both ==
    <<"[", "{", "\"", "p", "e", "r", "i", "o", "d", "\"", ":", "\"", "a",
      "\"", ",", "\"", "U+8ACB", "U+8868", "U+65E5", "U+671F", "\"", ":",
      "\"", "b", "\"", "}", ",", "7", "]">>
JsonTexts ==
    { json_periods, json_no_keys, json_inf, json_empty_list, json_object,
      json_cut, json_both, str_empty }

\* what the service may put under each of the three names
BillingPeriodValues ==
    { Absent, JNull, JStr(txt_period),
      JObj([k \in {"valueString"} |-> JStr(txt_period)]),
      JObj([k \in {"type"} |-> JStr(<<"s">>)]) }
ElectricityConsumptionValues ==
    { Absent, JNull, JList(<<>>),
      JObj([k \in {"valueNumber"} |-> JInt(1234)]),
      JObj([k \in {"valueString"} |-> JStr(txt_period)]) }
MultipleBillingPeriodsValues ==
    { Absent, JNull, JStr(<<"x">>), JStr(str_valueString),
      JList(<<JStr(str_valueString)>>),
      JObj([k \in {"type"} |-> JStr(<<"s">>)]),
      JObj([k \in {"valueString"} |-> JInt(5)]),
      JObj([k \in {"valueString"} |-> JNull]) }
    \cup { JObj([k \in {"valueString"} |-> JStr(t)]) : t \in JsonTexts }

\* the bodies poll_result may return to main(): the status is succeeded in
\* some letter case; the result is well formed, or cut short at some level
Payloads ==
    { [status |-> JStr(S_Succeeded), result |-> WithFields(FieldMapping(bp, ec, mbp))] :
        bp \in BillingPeriodValues, ec \in ElectricityConsumptionValues,
        mbp \in MultipleBillingPeriodsValues }
    \cup { [status |-> JStr(S_Succeeded), result |-> r] :
              r \in { JNull, EmptyDict, WithItem(EmptyDict), WithItem(JNull),
                      WithFields(JNull), WithFields(JList(<<>>)),
                      JObj([k \in {"contents"} |-> JList(<<>>)]),
                      JObj([k \in {"contents"} |-> JNull]) } }
    \cup { [status |-> JStr(S_Succeeded)],
           [status |-> JStr(str_succeeded),
            result |-> WithFields(FieldMapping(Absent, Absent, Absent))] }

\* result["result"]["contents"][0]["fields"]
FieldsOf(res) ==
    LET contents == Subscript(res["result"], "contents")
        item == IF contents.ok THEN SubscriptZero(contents.val) ELSE contents
    IN  IF item.ok THEN Subscript(item.val, "fields") ELSE item

\* a wrong lookup, fields[name].get(sub, "Not found"): a missing field is a
\* KeyError
GetFieldStrict(fields, name, sub) ==
    LET field == Subscript(fields, name)
    IN  IF field.ok THEN MethodGet(field.val, sub, JStr(str_not_found))
        ELSE field

\* fields.get(name, {}).get(sub, "Not found")
GetField(fields, name, sub) ==
    LET field == MethodGet(fields, name, EmptyDict)
    IN  IF field.ok THEN MethodGet(field.val, sub, JStr(str_not_found))
        ELSE field

\* `result.get("status") == "Succeeded" and "result" in result`
AnalysisSucceeded(res) ==
    DictGet(res, "status", JNull) = JStr(S_Succeeded) /\ "result" \in DOMAIN res

\* a wrong start of the list: the periods of an earlier run are kept
StandardizedKeep(previous) == IF previous = NoResult THEN <<>> ELSE previous.items

\* `standardized_data = []`
StandardizedStart(previous) == <<>>

\* a wrong lookup: the alternate key is preferred to the primary one
GetAlternateFirst(d, primary, alternate, default) ==
    DictGet(d, alternate, DictGet(d, primary, default))

\* period.get(primary, period.get(alternate, default))
GetWithFallback(d, primary, alternate, default) ==
    DictGet(d, primary, DictGet(d, alternate, default))

\* the loop over multiple_periods: one standardized period for each dict
RECURSIVE Standardize(_, _)
Standardize(periods, acc) ==
    IF periods = <<>> THEN acc
    ELSE LET period == periods[1]
         IN  IF period.type = "object"
             THEN Standardize(Tail(periods), Append(acc,
                      [period |-> GetWithFallback(period.members, "period",
                                     key_date_zh, JStr(str_unknown)),
                       consumption |-> parse_consumption(
                                     GetWithFallback(period.members, "consumption",
                                        key_use_zh, JStr(str_zero)))]))
             ELSE Standardize(Tail(periods), acc)

\* what lines 71-108 leave when no period list is built and nothing is printed
NoPeriods == [standardized_data |-> NoResult, raw_output |-> NoResult]

\* lines 71-108 of analyze_multi_periods.main on a dict of fields: the list
\* standardized_data (NoResult when it is never assigned) and the text
\* printed by `except json.JSONDecodeError`, or the exception
MultiplePeriods(fields, previous) ==
    IF "MultipleBillingPeriods" \notin DOMAIN fields.members THEN Ok(NoPeriods)
    ELSE LET mbp == fields.members["MultipleBillingPeriods"]
             has == KeyIn(str_valueString, mbp)
         IN  IF ~has.ok THEN has
             ELSE IF ~has.val THEN Ok(NoPeriods)
             ELSE LET multiple_periods_str == Subscript(mbp, "valueString")
                      multiple_periods ==
                          IF multiple_periods_str.ok
                          THEN JsonLoads(multiple_periods_str.val)
                          ELSE multiple_periods_str
                  IN  IF ~multiple_periods.ok
                      THEN IF multiple_periods.exc = "JSONDecodeError"
                           THEN Ok([NoPeriods EXCEPT
                                       !.raw_output = multiple_periods_str.val])
                           ELSE multiple_periods
                      ELSE IF multiple_periods.val.type = "list"
                              /\ multiple_periods.val.items # <<>>
                      THEN Ok([NoPeriods EXCEPT !.standardized_data =
                                  JList(Standardize(multiple_periods.val.items,
                                                    StandardizedStart(previous)))])
                      ELSE Ok(NoPeriods)

\* the locals of the extraction before any of them is assigned
NoLocals ==
    [billing_period |-> NoResult, consumption |-> NoResult,
     standardized_data |-> NoResult, raw_output |-> NoResult,
     pc |-> "skipped", raised |-> ""]

\* `except (KeyError, IndexError)`: these two are reported, any other
\* exception leaves main()
Handled(locals, exc) ==
    IF exc \in {"KeyError", "IndexError"} THEN [locals EXCEPT !.pc = "caught"]
    ELSE [locals EXCEPT !.pc = "raised", !.raised = exc]

\* lines 56-112 of analyze_multi_periods.main: the locals after the block
ExtractPeriods(res, previous) ==
    IF ~AnalysisSucceeded(res) THEN NoLocals
    ELSE LET fields == FieldsOf(res)
             bp == GetField(fields.val, "BillingPeriod", "valueString")
             ec == GetField(fields.val, "ElectricityConsumption", "valueNumber")
             periods == MultiplePeriods(fields.val, previous)
         IN  IF ~fields.ok THEN Handled(NoLocals, fields.exc)
             ELSE IF ~bp.ok THEN Handled(NoLocals, bp.exc)
             ELSE IF ~ec.ok
             THEN Handled([NoLocals EXCEPT !.billing_period = bp.val], ec.exc)
             ELSE IF ~periods.ok
             THEN Handled([NoLocals EXCEPT !.billing_period = bp.val,
                                           !.consumption = ec.val], periods.exc)
             ELSE [NoLocals EXCEPT !.billing_period = bp.val,
                                   !.consumption = ec.val,
                                   !.standardized_data = periods.val.standardized_data,
                                   !.raw_output = periods.val.raw_output,
                                   !.pc = "extracted"]

\* lines 58-81 of analyze_all_bills.main: the record appended to results, or
\* which of the messages is printed
ExtractBill(res, filename) ==
    IF ~AnalysisSucceeded(res) THEN [pc |-> "analysis_failed"]
    ELSE LET fields == FieldsOf(res)
             bp == GetField(fields.val, "BillingPeriod", "valueString")
             ec == GetField(fields.val, "ElectricityConsumption", "valueNumber")
         IN  IF ~fields.ok THEN Handled([pc |-> "", raised |-> ""], fields.exc)
             ELSE IF ~bp.ok THEN Handled([pc |-> "", raised |-> ""], bp.exc)
             ELSE IF ~ec.ok THEN Handled([pc |-> "", raised |-> ""], ec.exc)
             ELSE [pc |-> "extracted",
                   extracted_data |-> [filename |-> filename,
                                       billing_period |-> bp.val,
                                       electricity_consumption |-> ec.val]]

\* ------------------------------------------------------- extraction, driver
ExInit ==
    /\ main_result = NoResult
    /\ billing_period = NoResult
    /\ consumption = NoResult
    /\ standardized_data = NoResult
    /\ raw_output = NoResult
    /\ ex_pc = "idle"
    /\ ex_raised = ""
    /\ runs = 0
    /\ first_run = NoResult

DrvInit ==
    /\ bill_files = <<>>
    /\ doc = 0
    /\ attempts = <<>>
    /\ results = <<>>
    /\ summary = NoResult
    /\ outcomes = <<>>
    /\ drv_pc = "start"

\* the extraction block of analyze_multi_periods.main, run on the payload
\* main() holds; each run starts with its locals unassigned
ExtractionRun ==
    /\ main_result # NoResult
    /\ runs < MaxRuns
    /\ \E locals \in { ExtractPeriods(main_result, standardized_data) } :
           /\ billing_period' = locals.billing_period
           /\ consumption' = locals.consumption
           /\ standardized_data' = locals.standardized_data
           /\ raw_output' = locals.raw_output
           /\ ex_pc' = locals.pc
           /\ ex_raised' = locals.raised
           /\ first_run' = IF runs = 0
                           THEN [payload |-> main_result, locals |-> locals]
                           ELSE first_run
    /\ runs' = runs + 1
    /\ UNCHANGED main_result
    /\ UNCHANGED << cfgVars, baVars, pollVars, parseVars, drvVars, provVars,
                    thrVars >>

\* ---------------------------------------------------- analyze_all_bills.main
\* polling_interval_seconds=2
BatchInterval == 2

\* the entries the glob may list: two bills, and a bill that is removed
\* between the glob and its begin_analyze
loc_pdf == <<"b", ".", "p", "d", "f">>
loc_gone == <<"c", ".", "j", "p", "g">>
BillPaths == { loc_png, loc_pdf, loc_gone }
BatchFs ==
    (loc_cwd :> Directory) @@ (loc_png :> File(<<137, 80, 78>>))
        @@ (loc_pdf :> File(<<37, 80>>))

\* list(Path(bills_directory).glob("*.*")): distinct entries in some order
BillLists ==
    { l \in UNION { [1..n -> BillPaths] : n \in 0..MaxDocs } :
        \A i, j \in DOMAIN l : i # j => l[i] # l[j] }

\* a wrong loop: a failed document ends the batch
StopOnFailure(d, n, failed) ==
    IF d < n /\ ~failed THEN [drv_pc |-> "submit", doc |-> d + 1]
    ELSE [drv_pc |-> "summary", doc |-> d]

\* `for bill_file in bill_files` after document d of n: the next document,
\* or the end of the loop, whether the document failed or not
NextDocument(d, n, failed) ==
    IF d < n THEN [drv_pc |-> "submit", doc |-> d + 1]
    ELSE [drv_pc |-> "summary", doc |-> d]

\* lines 35-42: the glob, the return on an empty list, results = []
BatchStart ==
    /\ drv_pc = "start"
    /\ \E l \in BillLists :
        /\ bill_files' = l
        /\ IF l = <<>>
           THEN drv_pc' = "done" /\ doc' = 0
           ELSE drv_pc' = "submit" /\ doc' = 1
    /\ results' = <<>>
    /\ UNCHANGED << attempts, summary, outcomes >>
    /\ UNCHANGED << cfgVars, baVars, pollVars, parseVars, exVars, provVars,
                    thrVars >>

\* lines 43-48 and 83-84: begin_analyze on the next file; an exception is
\* reported by `except Exception` and the loop goes on
BatchSubmit ==
    /\ drv_pc = "submit"
    /\ BeginAnalyzeCall(bill_files[doc])
    /\ ba_pc' = "done"
    /\ attempts' = Append(attempts, bill_files[doc])
    /\ IF ba_raised' # ""
       THEN /\ outcomes' = Append(outcomes,
                   [file |-> bill_files[doc], raised |-> ba_raised',
                    returned |-> NoResult])
            /\ drv_pc' = NextDocument(doc, Len(bill_files), TRUE).drv_pc
            /\ doc' = NextDocument(doc, Len(bill_files), TRUE).doc
       ELSE /\ drv_pc' = "poll"
            /\ UNCHANGED << doc, outcomes >>
    /\ UNCHANGED << bill_files, results, summary >>
    /\ UNCHANGED << cfgVars, pollVars, parseVars, exVars, provVars, thrVars >>

\* lines 51-55: the call of poll_result on the response of begin_analyze; the
\* server answers every GET the budget allows
BatchPoll ==
    /\ drv_pc = "poll"
    /\ pc = "idle"
    /\ \E d \in 0..MaxJitter :
        PollEnterCall("analyze", ba_response.headers, BatchTimeout,
                      BatchInterval, MaxScript, d)
    /\ UNCHANGED << cfgVars, baVars, parseVars, exVars, drvVars, provVars,
                    thrVars >>

\* the frame of poll_result is gone once the call is over
PollReturn ==
    /\ variant' = "analyze"
    /\ submit_headers' = [x \in {} |-> str_empty]
    /\ timeout_seconds' = 0
    /\ polling_interval_seconds' = 0
    /\ scriptLen' = 0
    /\ pc' = "idle"
    /\ operation_location' = str_empty
    /\ start_time' = 0
    /\ now' = 0
    /\ elapsed_time' = 0
    /\ responses' = <<>>
    /\ gets' = 0
    /\ sleeps' = <<>>
    /\ returned' = NoResult
    /\ raised' = ""
    /\ error_arg' = NoResult
    /\ last_get' = NoResult

\* lines 51-84 once poll_result is over: its exception is reported by
\* `except Exception`; its payload goes through the extraction, the record is
\* appended to results, and the payload is written to its own file (written:
\* whether that write succeeds; its OSError is reported like the others)
BatchFinish ==
    /\ drv_pc = "poll"
    /\ pc = "done"
    /\ \E written \in BOOLEAN :
        LET failed == raised # ""
            extracted == ~failed /\ ExtractBill(returned, bill_files[doc]).pc = "extracted"
            next == NextDocument(doc, Len(bill_files),
                                 failed \/ ~extracted \/ ~written)
        IN  /\ main_result' = IF failed THEN main_result ELSE returned
            /\ results' = IF extracted
                          THEN Append(results,
                                   ExtractBill(returned, bill_files[doc]).extracted_data)
                          ELSE results
            /\ outcomes' = Append(outcomes,
                   [file |-> bill_files[doc], raised |-> raised,
                    returned |-> returned])
            /\ drv_pc' = next.drv_pc
            /\ doc' = next.doc
    /\ PollReturn
    /\ UNCHANGED << bill_files, attempts, summary >>
    /\ UNCHANGED << billing_period, consumption, standardized_data,
                    raw_output, ex_pc, ex_raised, runs, first_run >>
    /\ UNCHANGED << cfgVars, baVars, parseVars, provVars, thrVars >>

\* lines 86-91: the summary file is written when there is a record
BatchSummary ==
    /\ drv_pc = "summary"
    /\ summary' = IF results # <<>> THEN JList(results) ELSE NoResult
    /\ drv_pc' = "done"
    /\ UNCHANGED << bill_files, doc, attempts, results, outcomes >>
    /\ UNCHANGED << cfgVars, baVars, pollVars, parseVars, exVars, provVars,
                    thrVars >>

\* ------------------------------------------------ create_multi_analyzer.main
str_schema_name ==
    <<"U", "t", "i", "l", "i", "t", "y", "B", "i", "l", "l", "S", "c", "h",
      "e", "m", "a">>

\* the definitions multi_period_request.json may hold: without a field
\* schema, with a nameless one, with a named one
Definitions ==
    { [k \in {} |-> EmptyDict],
      [k \in {"fieldSchema"} |-> EmptyDict],
      [k \in {"fieldSchema"} |-> JObj([n \in {"name"} |-> JStr(<<"s">>)])] }

\* lines 45-46: a field schema without a name gets the default one
WithSchemaName(d) ==
    IF "fieldSchema" \in DOMAIN d /\ "name" \notin DOMAIN d["fieldSchema"].members
    THEN [d EXCEPT !["fieldSchema"] =
             JObj(DictUpdate(d["fieldSchema"].members,
                             [n \in {"name"} |-> JStr(str_schema_name)]))]
    ELSE d

\* the status codes the service may answer a DELETE and a PUT with
DeleteCodes == { 204, 302, 403, 404, 500 }
PutCodes == { 201, 409, 500 }

ProvInit ==
    /\ analyzer_definition = [k \in {} |-> EmptyDict]
    /\ prov_pc = "start"
    /\ deletes = <<>>
    /\ delete_report = ""
    /\ creates = <<>>
    /\ create_response = NoResult
    /\ prov_report = ""
    /\ prov_raised = ""

\* a wrong handler: only the 404 is forgiven, any other error ends the run
DeleteHandledOnly404(code) ==
    IF ~RaisesForStatus(code) THEN [report |-> "deleted", pc |-> "create"]
    ELSE IF code = 404 THEN [report |-> "absent", pc |-> "create"]
    ELSE [report |-> "error", pc |-> "done"]

\* lines 30-42: delete_analyzer's raise_for_status and the handler of its
\* HTTPError; the create step follows in each case
DeleteHandled(code) ==
    IF ~RaisesForStatus(code) THEN [report |-> "deleted", pc |-> "create"]
    ELSE IF code = 404 THEN [report |-> "absent", pc |-> "create"]
    ELSE [report |-> "error", pc |-> "create"]

\* lines 29-42 and delete_analyzer (169-192): one DELETE, no polling
ProvDelete ==
    /\ prov_pc = "start"
    /\ \E code \in DeleteCodes :
        /\ deletes' = Append(deletes, code)
        /\ delete_report' = DeleteHandled(code).report
        /\ prov_pc' = DeleteHandled(code).pc
    /\ UNCHANGED << analyzer_definition, creates, create_response, prov_report,
                    prov_raised >>
    /\ UNCHANGED << cfgVars, baVars, pollVars, parseVars, exVars, drvVars,
                    thrVars >>

\* lines 44-54 and 71-80, create_analyzer (140-167): the schema name, one
\* PUT, raise_for_status; its HTTPError is reported by main()
ProvCreate ==
    /\ prov_pc = "create"
    /\ analyzer_definition' = WithSchemaName(analyzer_definition)
    /\ creates' = Append(creates, analyzer_definition')
    /\ \E code \in PutCodes, h \in SubmitHeaders :
        IF RaisesForStatus(code)
        THEN /\ prov_report' = "http_error"
             /\ prov_pc' = "done"
             /\ UNCHANGED create_response
        ELSE /\ create_response' = [status_code |-> code, headers |-> h]
             /\ prov_pc' = "poll"
             /\ UNCHANGED prov_report
    /\ UNCHANGED << deletes, delete_report, prov_raised >>
    /\ UNCHANGED << cfgVars, baVars, pollVars, parseVars, exVars, drvVars,
                    thrVars >>

\* lines 57-61: poll_result on the response of create_analyzer
ProvPoll ==
    /\ prov_pc = "poll"
    /\ pc = "idle"
    /\ \E d \in 0..MaxJitter :
        PollEnterCall("create_multi_analyzer", create_response.headers,
                      BatchTimeout, BatchInterval, MaxScript, d)
    /\ UNCHANGED << cfgVars, baVars, parseVars, exVars, drvVars, provVars,
                    thrVars >>

\* line 66: `result.get("status") == "ready"`
ReportedReady(res) == DictGet(res, "status", JNull) = JStr(str_ready)

\* lines 63-80 once poll_result is over: the report on the payload, the
\* report on an HTTPError; any other exception leaves main()
ProvFinish ==
    /\ prov_pc = "poll"
    /\ pc = "done"
    /\ prov_pc' = "done"
    /\ IF raised = "HTTPError"
       THEN prov_report' = "http_error" /\ UNCHANGED prov_raised
       ELSE IF raised # ""
       THEN prov_raised' = raised /\ UNCHANGED prov_report
       ELSE /\ prov_report' = IF ReportedReady(returned) THEN "ready"
                              ELSE "other_status"
            /\ UNCHANGED prov_raised
    /\ UNCHANGED << analyzer_definition, deletes, delete_report, creates,
                    create_response >>
    /\ UNCHANGED << cfgVars, baVars, pollVars, parseVars, exVars, drvVars,
                    thrVars >>

\* ------------------------------ begin_analyze and poll_result on two threads
\* one thread for each document; each sends its own file and gets its own
\* operation location
Threads == {1, 2}
OpUrl(i) == <<"o", "p", "/">> \o (IF i = 1 THEN <<"1">> ELSE <<"2">>)

\* what the service answers thread i: to its POST, and to its k-th GET
ThreadPostResponses(i) ==
    { [status_code |-> 202, headers |-> [x \in {"operation-location"} |-> OpUrl(i)]],
      [status_code |-> 202, headers |-> [x \in {} |-> str_empty]],
      [status_code |-> 500, headers |-> [x \in {} |-> str_empty]] }
ThreadResponses(i, k) ==
    { [code |-> 200, body |-> Body(st, <<i, k>>)] :
        st \in {JStr(S_Running), JStr(S_Succeeded), JStr(S_Failed)} }
    \cup { [code |-> 503, body |-> Body(JStr(S_Running), <<i, k>>)] }

\* the locals of a thread that has not called anything yet
NoFrame ==
    [pc |-> "idle", headers |-> NoHeaders, response_headers |-> NoHeaders,
     operation_location |-> str_empty, start_time |-> 0, elapsed_time |-> 0,
     wake |-> 0, urls |-> <<>>, responses |-> <<>>, readings |-> <<>>,
     returned |-> NoResult, raised |-> ""]

ThreadInit ==
    /\ frames = [i \in Threads |-> NoFrame]
    /\ clock = 0

\* a wrong update, self._headers.update(headers): the client's dict is the
\* one that changes
UpdateSelf(local, self_headers) ==
    [local |-> local, self_headers |-> DictUpdate(self_headers, local)]

\* `headers.update(self._headers)`: the local dict takes the client's
\* entries, the client's dict is only read
UpdateLocal(local, self_headers) ==
    [local |-> DictUpdate(local, self_headers), self_headers |-> self_headers]

\* begin_analyze on thread i (lines 151-198, the file exists): the local
\* headers, the POST, raise_for_status
ThreadSubmit(i) ==
    /\ frames[i].pc = "idle"
    /\ \E resp \in ThreadPostResponses(i) :
        LET updated == UpdateLocal([h \in {"Content-Type"} |-> "application/octet-stream"],
                                   client_headers)
        IN  /\ client_headers' = updated.self_headers
            /\ frames' = [frames EXCEPT ![i] =
                   IF RaisesForStatus(resp.status_code)
                   THEN [@ EXCEPT !.headers = updated.local,
                                  !.raised = "HTTPError", !.pc = "done"]
                   ELSE [@ EXCEPT !.headers = updated.local,
                                  !.response_headers = resp.headers,
                                  !.pc = "submitted"]]
    /\ UNCHANGED << cfg_pc, cfg_args, settings, client_endpoint,
                    client_api_version, cfg_raised, clock >>
    /\ UNCHANGED << baVars, pollVars, parseVars, exVars, drvVars, provVars >>

\* poll_result on thread i, lines 209-214: the operation location and the
\* start timestamp
ThreadEnter(i) ==
    /\ frames[i].pc = "submitted"
    /\ LET location == DictGet(frames[i].response_headers, "operation-location",
                               str_empty)
       IN  frames' = [frames EXCEPT ![i] =
               IF LocationMissing(location)
               THEN [@ EXCEPT !.raised = "ValueError", !.pc = "done"]
               ELSE [@ EXCEPT !.operation_location = location,
                              !.start_time = clock, !.pc = "loop"]]
    /\ UNCHANGED << cfgVars, baVars, pollVars, parseVars, exVars, drvVars,
                    provVars, clock >>

\* lines 216-223 on thread i: the elapsed time and the timeout test
ThreadCheckTimeout(i) ==
    /\ frames[i].pc = "loop"
    /\ LET elapsed == clock - frames[i].start_time
       IN  frames' = [frames EXCEPT ![i] =
               IF elapsed > BatchTimeout
               THEN [@ EXCEPT !.elapsed_time = elapsed,
                              !.readings = Append(@, elapsed),
                              !.raised = "TimeoutError", !.pc = "done"]
               ELSE [@ EXCEPT !.elapsed_time = elapsed,
                              !.readings = Append(@, elapsed),
                              !.pc = "get"]]
    /\ UNCHANGED << cfgVars, baVars, pollVars, parseVars, exVars, drvVars,
                    provVars, clock >>

\* lines 225-240 on thread i: the GET with the client's headers, the status
\* dispatch
ThreadGet(i) ==
    /\ frames[i].pc = "get"
    /\ Len(frames[i].responses) < MaxScript
    /\ \E r \in ThreadResponses(i, Len(frames[i].responses) + 1) :
        LET status == Lower(DictGet(r.body, "status", JStr(str_empty)).val)
            asked == [frames[i] EXCEPT
                         !.urls = Append(@, frames[i].operation_location),
                         !.responses = Append(@, r)]
        IN  frames' = [frames EXCEPT ![i] =
                IF RaisesForStatus(r.code)
                THEN [asked EXCEPT !.raised = "HTTPError", !.pc = "done"]
                ELSE IF IsSuccess("analyze", status)
                THEN [asked EXCEPT !.returned = r.body, !.pc = "done"]
                ELSE IF IsFailed(status)
                THEN [asked EXCEPT !.raised = "RuntimeError", !.pc = "done"]
                ELSE [asked EXCEPT !.pc = "sleep"]]
    /\ UNCHANGED << cfgVars, baVars, pollVars, parseVars, exVars, drvVars,
                    provVars, clock >>

\* line 241 on thread i: time.sleep starts; the thread is suspended until
\* the interval has passed
ThreadSleep(i) ==
    /\ frames[i].pc = "sleep"
    /\ frames' = [frames EXCEPT ![i] =
           [@ EXCEPT !.wake = clock + BatchInterval, !.pc = "sleeping"]]
    /\ UNCHANGED << cfgVars, baVars, pollVars, parseVars, exVars, drvVars,
                    provVars, clock >>

\* time.sleep returns on thread i, not before the interval has passed
ThreadWake(i) ==
    /\ frames[i].pc = "sleeping"
    /\ clock >= frames[i].wake
    /\ frames' = [frames EXCEPT ![i] = [@ EXCEPT !.pc = "loop"]]
    /\ UNCHANGED << cfgVars, baVars, pollVars, parseVars, exVars, drvVars,
                    provVars, clock >>

\* time passes, for all threads alike
Tick ==
    /\ clock < MaxClock
    /\ clock' = clock + 1
    /\ UNCHANGED << cfgVars, baVars, pollVars, parseVars, exVars, drvVars,
                    provVars, frames >>

\* ---------------------------------------------------------- specifications
\* poll_result on a client built as main() builds it
Init ==
    /\ Constructed(JStr("key-1"), JNull)
    /\ fs = (loc_cwd :> Directory)
    /\ BaInit
    /\ PollInit
    /\ ParseInit
    /\ ExInit
    /\ DrvInit
    /\ ProvInit
    /\ ThreadInit

Next ==
    \/ PollEnter
    \/ PollCheckTimeout
    \/ PollGet
    \/ PollSleep

Spec == Init /\ [][Next]_vars

\* poll_result runs in one thread that is never suspended for good, every
\* requests.get returns and every time.sleep ends: each step of the loop that
\* can be taken is taken
SpecLive ==
    /\ Init
    /\ [][Next]_vars
    /\ WF_vars(PollCheckTimeout)
    /\ WF_vars(PollGet)
    /\ WF_vars(PollSleep)

\* the construction of Settings and of the client
InitConfig ==
    /\ CfgInit
    /\ fs = (loc_cwd :> Directory)
    /\ BaInit
    /\ PollInit
    /\ ParseInit
    /\ ExInit
    /\ DrvInit
    /\ ProvInit
    /\ ThreadInit

NextConfig ==
    \/ SettingsInit
    \/ ClientInit

SpecConfig == InitConfig /\ [][NextConfig]_vars

\* begin_analyze on a client built with a key, or with a token
InitAnalyze ==
    /\ \/ Constructed(JStr("key-1"), JNull)
       \/ Constructed(JNull, JStr("token-1"))
    /\ fs \in FileSystems
    /\ BaInit
    /\ PollInit
    /\ ParseInit
    /\ ExInit
    /\ DrvInit
    /\ ProvInit
    /\ ThreadInit

NextAnalyze == BeginAnalyze

SpecAnalyze == InitAnalyze /\ [][NextAnalyze]_vars

\* parse_consumption, called on one value after another
InitParse ==
    /\ Constructed(JStr("key-1"), JNull)
    /\ fs = (loc_cwd :> Directory)
    /\ BaInit
    /\ PollInit
    /\ ParseInit
    /\ ExInit
    /\ DrvInit
    /\ ProvInit
    /\ ThreadInit

NextParse == CallParseConsumption

SpecParse == InitParse /\ [][NextParse]_vars

\* the extraction of analyze_multi_periods.main on a payload that poll_result
\* returned
InitExtract ==
    /\ Constructed(JStr("key-1"), JNull)
    /\ fs = (loc_cwd :> Directory)
    /\ BaInit
    /\ PollInit
    /\ ParseInit
    /\ main_result \in Payloads
    /\ billing_period = NoResult
    /\ consumption = NoResult
    /\ standardized_data = NoResult
    /\ raw_output = NoResult
    /\ ex_pc = "idle"
    /\ ex_raised = ""
    /\ runs = 0
    /\ first_run = NoResult
    /\ DrvInit
    /\ ProvInit
    /\ ThreadInit

NextExtract == ExtractionRun

SpecExtract == InitExtract /\ [][NextExtract]_vars

\* the batch driver analyze_all_bills.main
InitBatch ==
    /\ Constructed(JStr("key-1"), JNull)
    /\ fs = BatchFs
    /\ BaInit
    /\ PollInit
    /\ ParseInit
    /\ ExInit
    /\ DrvInit
    /\ ProvInit
    /\ ThreadInit

NextBatch ==
    \/ BatchStart
    \/ BatchSubmit
    \/ BatchPoll
    \/ PollCheckTimeout
    \/ PollGet
    \/ PollSleep
    \/ BatchFinish
    \/ BatchSummary

SpecBatch == InitBatch /\ [][NextBatch]_vars

\* the provisioning driver create_multi_analyzer.main
InitProvision ==
    /\ Constructed(JStr("key-1"), JNull)
    /\ fs = (loc_cwd :> Directory)
    /\ BaInit
    /\ PollInit
    /\ ParseInit
    /\ ExInit
    /\ DrvInit
    /\ analyzer_definition \in Definitions
    /\ prov_pc = "start"
    /\ deletes = <<>>
    /\ delete_report = ""
    /\ creates = <<>>
    /\ create_response = NoResult
    /\ prov_report = ""
    /\ prov_raised = ""
    /\ ThreadInit

NextProvision ==
    \/ ProvDelete
    \/ ProvCreate
    \/ ProvPoll
    \/ PollCheckTimeout
    \/ PollGet
    \/ PollSleep
    \/ ProvFinish

SpecProvision == InitProvision /\ [][NextProvision]_vars

\* two threads, each with begin_analyze and poll_result on one document, on
\* the same client
InitThreads ==
    /\ Constructed(JStr("key-1"), JNull)
    /\ fs = BatchFs
    /\ BaInit
    /\ PollInit
    /\ ParseInit
    /\ ExInit
    /\ DrvInit
    /\ ProvInit
    /\ ThreadInit

NextThreads ==
    \/ \E i \in Threads : ThreadSubmit(i)
    \/ \E i \in Threads : ThreadEnter(i)
    \/ \E i \in Threads : ThreadCheckTimeout(i)
    \/ \E i \in Threads : ThreadGet(i)
    \/ \E i \in Threads : ThreadSleep(i)
    \/ \E i \in Threads : ThreadWake(i)
    \/ Tick

SpecThreads == InitThreads /\ [][NextThreads]_vars

\* ------------------------------------------------------------------ claims
\* The claims speak of statuses without reference to the code's own tests:
\* two texts are the same ignoring case when they differ at most in the case
\* of their letters.
SameLetter(x, y) ==
    \/ x = y
    \/ \E i \in DOMAIN UpperLetters : {x, y} = {UpperLetters[i], LowerLetters[i]}

SameIgnoringCase(a, b) ==
    Len(a) = Len(b) /\ \A i \in DOMAIN a : SameLetter(a[i], b[i])

\* the body carries the status `token`, in any letter case
HasStatus(body, token) ==
    /\ "status" \in DOMAIN body
    /\ body.status.type = "str"
    /\ SameIgnoringCase(body.status.val, token)

Is2xx(code) == 200 <= code /\ code <= 299

\* a 2xx response whose status is textual (or absent) and is none of the
\* terminal tokens succeeded, ready, failed
NonTerminal(r) ==
    /\ Is2xx(r.code)
    /\ "status" \in DOMAIN r.body => r.body.status.type = "str"
    /\ ~HasStatus(r.body, str_succeeded)
    /\ ~HasStatus(r.body, str_ready)
    /\ ~HasStatus(r.body, str_failed)

AllNonTerminal(rs) == \A i \in DOMAIN rs : NonTerminal(rs[i])

LocationGiven ==
    /\ "operation-location" \in DOMAIN submit_headers
    /\ submit_headers["operation-location"] # str_empty

WithinBudget == now - start_time <= timeout_seconds

\* C1: on a response sequence of n non-terminal statuses followed by one
\* success status, with the waiting time within the timeout, poll_result
\* returns the payload of response n+1 after exactly n+1 GETs and n sleeps,
\* every sleep with the caller's polling interval; while only non-terminal
\* statuses have been received and the budget lasts, it neither returns nor
\* raises.
C1_ScriptedSuccess ==
    (pc # "idle" /\ LocationGiven /\ WithinBudget) =>
        /\ AllNonTerminal(responses) =>
              /\ pc # "done"
              /\ returned = NoResult /\ raised = ""
        /\ ( /\ responses # <<>>
             /\ AllNonTerminal(SubSeq(responses, 1, Len(responses) - 1))
             /\ Is2xx(responses[Len(responses)].code)
             /\ HasStatus(responses[Len(responses)].body, str_succeeded) ) =>
              /\ pc = "done" /\ raised = ""
              /\ returned = responses[Len(responses)].body
              /\ returned.payload = Len(responses)
              /\ gets = Len(responses)
              /\ Len(sleeps) = Len(responses) - 1
              /\ \A i \in DOMAIN sleeps : sleeps[i] = polling_interval_seconds

\* C1 witness: [Running, Running, Succeeded] returned the third payload
C1_Witness ==
    /\ pc = "done" /\ returned # NoResult
    /\ Len(responses) = 3
    /\ responses[1] = [code |-> 200, body |-> Body(JStr(S_Running), 1)]
    /\ responses[2] = [code |-> 200, body |-> Body(JStr(S_Running), 2)]
    /\ responses[3] = [code |-> 200, body |-> Body(JStr(S_Succeeded), 3)]
    /\ returned.payload = 3
    /\ Len(sleeps) = 2

AlwaysRunningShortTimeout ==
    /\ pc # "idle" /\ LocationGiven
    /\ timeout_seconds < polling_interval_seconds
    /\ AllNonTerminal(responses)

\* C2 as stated: with an always-Running sequence of length N and
\* 0 <= timeout < interval, poll_result fails with TimeoutError having
\* consumed fewer than N responses, never returning and never raising the
\* failed-status error.
C2_Original ==
    AlwaysRunningShortTimeout =>
        /\ returned = NoResult
        /\ raised \in {"", "TimeoutError"}
        /\ pc = "done" => (raised = "TimeoutError" /\ gets < scriptLen)

\* C2 as amended: with an always-Running sequence and 0 <= timeout <
\* interval, poll_result fails with TimeoutError after at most one GET (so
\* fewer than N responses are consumed when N >= 2, and the one response
\* when N = 1); it never returns and never raises the failed-status error.
C2_Amended ==
    AlwaysRunningShortTimeout =>
        /\ returned = NoResult
        /\ raised \in {"", "TimeoutError"}
        /\ gets <= 1
        /\ ~(pc = "get" /\ gets = 1)
        /\ pc = "done" => raised = "TimeoutError"
        /\ (pc = "done" /\ scriptLen >= 2) => gets < scriptLen

\* C2 witness: the timeout struck after the one GET of a longer sequence
C2_Witness ==
    /\ AlwaysRunningShortTimeout
    /\ pc = "done" /\ raised = "TimeoutError"
    /\ gets = 1 /\ scriptLen = 3

\* C3: a poll response with status failed, in any letter case, makes
\* poll_result raise the analysis-failed error at that iteration: it is the
\* last response, no GET and no sleep follow, whatever budget remains.
C3_FailedRaisesAtOnce ==
    \A i \in DOMAIN responses :
        (Is2xx(responses[i].code) /\ HasStatus(responses[i].body, str_failed)) =>
            /\ i = Len(responses)
            /\ pc = "done"
            /\ raised = "RuntimeError"
            /\ returned = NoResult
            /\ gets = i
            /\ Len(sleeps) = i - 1

\* C3 witness: FAILED at the second poll, with budget left
C3_Witness ==
    /\ pc = "done" /\ raised = "RuntimeError"
    /\ Len(responses) = 2
    /\ responses[2] = [code |-> 200, body |-> Body(JStr(S_FAILED), 2)]
    /\ now - start_time < timeout_seconds

\* C4 as stated: for every timeout, poll_result issues at least one GET
\* before it can raise TimeoutError.
C4_Original == raised = "TimeoutError" => gets >= 1

\* C4 as amended: the first GET is issued exactly when the elapsed time
\* measured at the first loop entry does not exceed the timeout; when it does
\* (a timeout of 0 and a clock that moved since the start timestamp),
\* TimeoutError is raised before any GET and any sleep.
C4_Amended ==
    /\ (raised = "TimeoutError" /\ gets = 0) =>
          /\ elapsed_time > timeout_seconds
          /\ sleeps = <<>> /\ last_get = NoResult
    /\ (pc = "get" /\ gets = 0) =>
          /\ elapsed_time <= timeout_seconds
          /\ ENABLED PollGet
    /\ (pc = "done" /\ gets = 0) => raised \in {"ValueError", "TimeoutError"}

\* C4 witness: TimeoutError with no GET issued
C4_Witness ==
    /\ pc = "done" /\ raised = "TimeoutError"
    /\ gets = 0 /\ timeout_seconds = 0

\* the success tokens the claims give each kind of poller
ClaimedSuccess(v, body) ==
    \/ HasStatus(body, str_succeeded)
    \/ v \in ProvisioningVariants /\ HasStatus(body, str_ready)

\* C5: returning the decoded body is the only normal exit of poll_result:
\* what it returns is the full body of the last GET, whose status is, ignoring
\* case, a success token of that poller (succeeded; for provisioning also
\* ready); a body with another, a missing or an empty status is never
\* returned, and poll_result never ends without a value and without an error.
C5_ReturnsOnlySuccessBody ==
    /\ returned # NoResult =>
          /\ pc = "done" /\ raised = ""
          /\ responses # <<>>
          /\ gets = Len(responses)
          /\ returned = responses[Len(responses)].body
          /\ ClaimedSuccess(variant, returned)
    /\ (pc = "done" /\ raised = "") => returned # NoResult
    /\ raised # "" => returned = NoResult

\* C5 witness: the provisioning poller returned a body with status Ready
C5_Witness ==
    /\ pc = "done"
    /\ variant = "create_multi_analyzer"
    /\ returned = Body(JStr(S_Ready), 2)

\* C6 as stated: for every provisioning poller a poll response with status
\* ready is a terminal success: its body is returned at that iteration.
C6_ReadyIsTerminal ==
    \A i \in DOMAIN responses :
        ( /\ variant \in ProvisioningVariants
          /\ Is2xx(responses[i].code)
          /\ HasStatus(responses[i].body, str_ready) ) =>
            /\ i = Len(responses)
            /\ pc = "done"
            /\ returned = responses[i].body

\* C7: without an operation-location header (missing or empty) poll_result
\* fails with the operation-handle-missing error before any GET and any
\* sleep, and does nothing more.
C7_NoLocationFailsFirst ==
    (pc # "idle" /\ ~LocationGiven) =>
        /\ pc = "done"
        /\ raised = "ValueError"
        /\ returned = NoResult
        /\ gets = 0 /\ responses = <<>> /\ last_get = NoResult
        /\ sleeps = <<>>
        /\ ~ENABLED Next

\* C7 witness: the header is present and empty
C7_Witness ==
    /\ pc = "done" /\ raised = "ValueError"
    /\ "operation-location" \in DOMAIN submit_headers

\* the effect the claims give an HTTP error at the i-th GET
HttpErrorAt(i) ==
    /\ i = Len(responses)
    /\ pc = "done"
    /\ raised = "HTTPError"
    /\ returned = NoResult
    /\ gets = i
    /\ Len(sleeps) = i - 1

KeyUsable(key) == key # JNull /\ key.val # "" /\ key.val # KeyPlaceholder
TokenUsable(token) == token # JNull /\ token.val # "" /\ token.val # TokenPlaceholder

AuthHeaders == {"Ocp-Apim-Subscription-Key", "Authorization"}

\* C9: with both secrets absent, empty or placeholder the construction
\* (Settings, then the client) fails with a configuration error and builds
\* nothing; with exactly one usable secret (and the endpoint and the API
\* version given) it succeeds, and the header set holds exactly one of the two
\* authorization headers plus the fixed x-ms-useragent header.
C9_Credentials ==
    cfg_pc # "new" =>
        LET key == cfg_args.subscription_key
            token == cfg_args.aad_token
        IN  /\ (~KeyUsable(key) /\ ~TokenUsable(token)) =>
                  /\ cfg_pc = "failed"
                  /\ cfg_raised # ""
                  /\ settings = NoResult
                  /\ client_headers = NoHeaders
            /\ ( /\ KeyUsable(key) # TokenUsable(token)
                 /\ cfg_args.endpoint # str_empty
                 /\ cfg_args.api_version # str_empty ) =>
                  /\ cfg_pc \in {"settings", "client"}
                  /\ cfg_raised = ""
                  /\ cfg_pc = "settings" => ENABLED ClientInit
                  /\ cfg_pc = "client" =>
                        /\ Cardinality(DOMAIN client_headers \cap AuthHeaders) = 1
                        /\ Cardinality(DOMAIN client_headers) = 2
                        /\ "x-ms-useragent" \in DOMAIN client_headers
                        /\ client_headers["x-ms-useragent"] = DefaultUserAgent

\* C9 witness: a client built from a token alone carries the bearer header
C9_Witness ==
    /\ cfg_pc = "client"
    /\ cfg_args.subscription_key = JNull
    /\ cfg_args.aad_token = JStr("token-1")
    /\ "Authorization" \in DOMAIN client_headers

\* a string shaped as a URL: it starts with the http:// or https:// scheme
UrlShaped(loc) == StartsWith(loc, str_http) \/ StartsWith(loc, str_https)

\* the path names an existing file
ExistingFile(loc) ==
    loc # str_empty /\ loc \in DOMAIN fs /\ fs[loc].kind = "file"

\* no path exists under that name
NoSuchPath(loc) == loc # str_empty /\ loc \notin DOMAIN fs

\* C10 as stated: begin_analyze classifies its target in this order: an
\* existing local file yields the file's exact bytes with content-type
\* octet-stream, even if the string reads as a URL; otherwise a string that
\* starts with http:// or https:// yields the body {"url": <string>} with the
\* JSON content-type; any other string fails with the invalid-target error
\* and no POST is sent.
C10_TargetClassification ==
    ba_pc = "done" =>
        /\ ExistingFile(file_location) =>
              /\ ba_post # NoResult
              /\ ba_post.body = [data |-> fs[file_location].bytes]
              /\ ba_post.headers["Content-Type"] = "application/octet-stream"
        /\ (NoSuchPath(file_location) /\ UrlShaped(file_location)) =>
              /\ ba_post # NoResult
              /\ ba_post.body = [json |-> [url |-> file_location]]
              /\ ba_post.headers["Content-Type"] = "application/json"
        /\ (NoSuchPath(file_location) /\ ~UrlShaped(file_location)) =>
              /\ ba_raised = "ValueError"
              /\ ba_post = NoResult

\* the text with its commas and spaces removed
WithoutSeparators(t) == SelectSeq(t, LAMBDA c : c \notin {",", " "})

\* a signed decimal: an optional sign, digits, an optional decimal point and
\* (fractional) digits, at least one digit closing it
IsSignedDecimal(u) ==
    LET body == IF u # <<>> /\ IsSign(u[1]) THEN Tail(u) ELSE u
    IN  /\ body # <<>>
        /\ IsDigit(body[Len(body)])
        /\ \A j \in DOMAIN body : IsDigit(body[j]) \/ body[j] = "."
        /\ Cardinality({ j \in DOMAIN body : body[j] = "." }) <= 1

HasDigit(t) == \E j \in DOMAIN t : IsDigit(t[j])

\* the first contiguous signed-decimal substring of a text with a digit: it
\* starts at the leftmost position where one starts and runs as far as it can
FirstSignedDecimal(t) ==
    LET Starts(i) == \E j \in i..Len(t) : IsSignedDecimal(SubSeq(t, i, j))
        i == CHOOSE i1 \in DOMAIN t :
                 Starts(i1) /\ \A i2 \in 1..(i1 - 1) : ~Starts(i2)
        j == CHOOSE j1 \in i..Len(t) :
                 /\ IsSignedDecimal(SubSeq(t, i, j1))
                 /\ \A j2 \in (j1 + 1)..Len(t) : ~IsSignedDecimal(SubSeq(t, i, j2))
    IN  SubSeq(t, i, j)

\* C12: parse_consumption returns a value that is already numeric unchanged
\* (42 -> 42); for a text it removes the commas and the spaces, takes the
\* first contiguous signed-decimal substring and parses it, so that
\* "1,234.5 kWh" -> 1234.5; the digit-free text of an em dash -> 0.
C12_NumericCoercion ==
    parsed # NoResult =>
        /\ consumption_str.type \in {"int", "float"} => parsed = consumption_str
        /\ (consumption_str.type = "str" /\ HasDigit(consumption_str.val)) =>
              parsed = PyFloat(FirstSignedDecimal(WithoutSeparators(consumption_str.val)))
        /\ consumption_str = JInt(42) => parsed = JInt(42)
        /\ consumption_str = JStr(txt_kwh) => parsed = JFloat(12345, 10)
        /\ consumption_str = JStr(txt_emdash) => parsed = JInt(0)

\* C12 witness: "1,234.5 kWh" was parsed to 1234.5
C12_Witness ==
    /\ consumption_str = JStr(txt_kwh)
    /\ parsed = [type |-> "float", num |-> 12345, den |-> 10]

\* C13 as stated: for every text in which no signed-decimal substring is
\* found (no digit at all, the words inf, nan and Infinity included) and for
\* every input that is neither numeric nor text (null, list, object),
\* parse_consumption returns 0.
C13_NoNumberGivesZero ==
    ( /\ parsed # NoResult
      /\ \/ consumption_str.type = "str" /\ ~HasDigit(consumption_str.val)
         \/ consumption_str.type \in {"null", "list", "object"} ) =>
        parsed = JInt(0)

\* the payload has a first content item, a dict
HasContentItem(res) ==
    /\ "result" \in DOMAIN res
    /\ res["result"].type = "object"
    /\ "contents" \in DOMAIN res["result"].members
    /\ res["result"].members["contents"].type = "list"
    /\ res["result"].members["contents"].items # <<>>
    /\ res["result"].members["contents"].items[1].type = "object"

ContentItem(res) == res["result"].members["contents"].items[1].members

\* a terminal-success payload as the driver knows it
TerminalSuccess(res) ==
    "status" \in DOMAIN res /\ res["status"] = JStr(S_Succeeded)

NotFound == JStr(str_not_found)

\* C14 as stated: on a terminal-success payload whose content item lacks the
\* field mapping entirely, the extraction does not raise and yields a record
\* in which every named field (billing period, electricity consumption)
\* holds the "Not found" sentinel.
C14_MissingMappingGivesSentinels ==
    ( /\ runs >= 1
      /\ TerminalSuccess(main_result)
      /\ HasContentItem(main_result)
      /\ "fields" \notin DOMAIN ContentItem(main_result) ) =>
        /\ ex_raised = ""
        /\ billing_period = NotFound
        /\ consumption = NotFound

\* the payload's content item has a field mapping, a dict
HasFieldMapping(res) ==
    /\ HasContentItem(res)
    /\ "fields" \in DOMAIN ContentItem(res)
    /\ ContentItem(res)["fields"].type = "object"

FieldMappingOf(res) == ContentItem(res)["fields"].members

\* the named field is present but null or not an object
Misshapen(fields, name) ==
    name \in DOMAIN fields /\ fields[name].type # "object"

\* MultipleBillingPeriods.valueString is present but not a string
PeriodsTextMisshapen(fields) ==
    /\ "MultipleBillingPeriods" \in DOMAIN fields
    /\ fields["MultipleBillingPeriods"].type = "object"
    /\ "valueString" \in DOMAIN fields["MultipleBillingPeriods"].members
    /\ fields["MultipleBillingPeriods"].members["valueString"].type # "str"

\* what a defensive lookup of fields[name][sub] gives: the value, or the
\* sentinel when the field is missing, misshapen or without the sub-key
Degraded(fields, name, sub) ==
    IF /\ name \in DOMAIN fields
       /\ fields[name].type = "object"
       /\ sub \in DOMAIN fields[name].members
    THEN fields[name].members[sub]
    ELSE NotFound

\* C15 as stated: on a success payload in which a named field is present but
\* misshapen (its value is null or not an object, or
\* MultipleBillingPeriods.valueString is present but not a string) the
\* extraction finishes without an uncaught exception, the affected field
\* degrades to its sentinel (no periods for the period list) and the other
\* fields are still extracted.
C15_MalformedFieldDegrades ==
    ( /\ runs >= 1
      /\ TerminalSuccess(main_result)
      /\ HasFieldMapping(main_result)
      /\ \/ Misshapen(FieldMappingOf(main_result), "BillingPeriod")
         \/ Misshapen(FieldMappingOf(main_result), "ElectricityConsumption")
         \/ Misshapen(FieldMappingOf(main_result), "MultipleBillingPeriods")
         \/ PeriodsTextMisshapen(FieldMappingOf(main_result)) ) =>
        /\ ex_raised = ""
        /\ billing_period =
              Degraded(FieldMappingOf(main_result), "BillingPeriod", "valueString")
        /\ consumption =
              Degraded(FieldMappingOf(main_result), "ElectricityConsumption", "valueNumber")
        /\ ( \/ Misshapen(FieldMappingOf(main_result), "MultipleBillingPeriods")
             \/ PeriodsTextMisshapen(FieldMappingOf(main_result)) ) =>
              standardized_data = NoResult

Extractable(res) ==
    /\ TerminalSuccess(res)
    /\ HasFieldMapping(res)
    /\ ~Misshapen(FieldMappingOf(res), "BillingPeriod")
    /\ ~Misshapen(FieldMappingOf(res), "ElectricityConsumption")

\* the records of the documents that were analysed and extracted, in the
\* order of processing
RECURSIVE ExpectedRecords(_)
ExpectedRecords(outs) ==
    IF outs = <<>> THEN <<>>
    ELSE LET o == outs[Len(outs)]
             before == ExpectedRecords(SubSeq(outs, 1, Len(outs) - 1))
         IN  IF o.raised = "" /\ Extractable(o.returned)
             THEN Append(before,
                      [filename |-> o.file,
                       billing_period |->
                           Degraded(FieldMappingOf(o.returned),
                                    "BillingPeriod", "valueString"),
                       electricity_consumption |->
                           Degraded(FieldMappingOf(o.returned),
                                    "ElectricityConsumption", "valueNumber")])
             ELSE before

\* C11: in the batch driver every document of the list is attempted exactly
\* once in list order, whatever happened to the documents before it (invalid
\* target, HTTP error on submit or poll, missing operation location, failed
\* status, timeout, unextractable fields): after a document is over the next
\* one can be submitted, the results hold exactly one record for each
\* document that was analysed and extracted, in processing order, and the
\* summary written at the end is that list.
C11_FailuresIsolated ==
    /\ attempts = SubSeq(bill_files, 1, Len(attempts))
    /\ Len(outcomes) <= Len(attempts)
    /\ \A i \in DOMAIN outcomes : outcomes[i].file = bill_files[i]
    /\ drv_pc = "submit" =>
          /\ doc = Len(attempts) + 1
          /\ doc <= Len(bill_files)
          /\ Len(outcomes) = Len(attempts)
          /\ ENABLED BatchSubmit
    /\ drv_pc = "poll" => doc = Len(attempts) /\ Len(outcomes) = doc - 1
    /\ drv_pc \in {"summary", "done"} =>
          attempts = bill_files /\ Len(outcomes) = Len(bill_files)
    /\ results = ExpectedRecords(outcomes)
    /\ drv_pc = "done" =>
          summary = (IF ExpectedRecords(outcomes) = <<>> THEN NoResult
                     ELSE JList(ExpectedRecords(outcomes)))

\* a batch of two documents is over: the first one timed out, the second one
\* was extracted and is the only record of the summary
C11_Witness ==
    /\ drv_pc = "done"
    /\ Len(bill_files) = 2
    /\ outcomes[1].raised = "TimeoutError"
    /\ outcomes[2].raised = "" /\ Extractable(outcomes[2].returned)
    /\ summary # NoResult
    /\ Len(summary.items) = 1
    /\ summary.items[1].filename = bill_files[2]

\* C17 as stated: the error raised on a failed status carries the full
\* decoded response body, in every copy of poll_result (the analysis pollers
\* and both provisioning pollers).
C17_FailedCarriesBody ==
    raised = "RuntimeError" =>
        /\ responses # <<>>
        /\ error_arg = responses[Len(responses)].body

\* C18 as stated: the timeout is evaluated only directly after a poll with a
\* non-terminal status, and every sleep is followed by another poll:
\* TimeoutError is never raised directly after a sleep without a GET between
\* the two.
C18_Original ==
    (raised = "TimeoutError" /\ sleeps # <<>>) => Len(sleeps) < gets

\* C18 as amended: the timeout is evaluated at the top of every iteration,
\* that is before the first GET and directly after every sleep, never between
\* a GET and the sleep that follows it: a non-terminal status always leads to
\* the sleep, a GET is issued only when the clock read directly before it was
\* within the budget, and TimeoutError is raised directly after a sleep (or
\* at the loop entry) with no GET in between, so that a status which the next
\* poll would have shown stays unobserved.
C18_Amended ==
    /\ raised = "TimeoutError" =>
          /\ pc = "done"
          /\ gets = Len(sleeps)
          /\ elapsed_time > timeout_seconds
          /\ elapsed_time = now - start_time
    /\ pc = "sleep" =>
          /\ gets = Len(sleeps) + 1
          /\ raised = ""
          /\ ENABLED PollSleep
    /\ pc = "loop" => gets = Len(sleeps)
    /\ pc = "get" =>
          /\ gets = Len(sleeps)
          /\ now - start_time <= timeout_seconds

\* C18 witness: TimeoutError directly after the second sleep, with a third
\* response of the script never asked for
C18_Witness ==
    /\ pc = "done" /\ raised = "TimeoutError"
    /\ Len(sleeps) = 2 /\ gets = 2
    /\ scriptLen = 3

\* C19 as stated: the TimeoutError reports the elapsed seconds measured since
\* the start timestamp, not the configured timeout.
C19_Original ==
    raised = "TimeoutError" => error_arg = [seconds |-> elapsed_time]

\* C19 as amended: the TimeoutError reports the configured timeout_seconds,
\* which is less than the elapsed time that was measured (the elapsed time
\* only goes to the log).
C19_Amended ==
    raised = "TimeoutError" =>
        /\ error_arg = [seconds |-> timeout_seconds]
        /\ error_arg.seconds < elapsed_time

\* C19 witness: a timeout of 1 second reported after 3 seconds had elapsed
C19_Witness ==
    /\ pc = "done" /\ raised = "TimeoutError"
    /\ timeout_seconds = 1 /\ elapsed_time = 3
    /\ error_arg = [seconds |-> 1]

\* a decoded response whose status is neither a success token of the poller
\* nor failed
NotATerminalToken(v, r) ==
    /\ Is2xx(r.code)
    /\ ~ClaimedSuccess(v, r.body)
    /\ ~HasStatus(r.body, str_failed)

\* the i-th response was treated as Running: the sleep follows it
TreatedAsRunning(i) ==
    /\ raised # "RuntimeError" \/ i < Len(responses)
    /\ returned = NoResult \/ i < Len(responses)
    /\ \/ i = Len(responses) /\ pc = "sleep" /\ Len(sleeps) = i - 1
       \/ Len(sleeps) >= i

\* C20 as stated: any poll response whose status is not a success or failed
\* token is treated as Running: poll_result neither returns nor raises the
\* failed-status error on it and goes on to the sleep / timeout path.
C20_Original ==
    \A i \in DOMAIN responses :
        NotATerminalToken(variant, responses[i]) => TreatedAsRunning(i)

\* C20 as amended: a poll response whose status is textual or absent and is
\* not a success or failed token (an unrecognized string, the empty string,
\* no status key) is treated as Running: poll_result neither returns nor
\* raises the failed-status error on it and goes on to the sleep; a status
\* that is not text (null) makes poll_result fail with AttributeError at that
\* iteration, without a sleep.
C20_Amended ==
    \A i \in DOMAIN responses :
        NotATerminalToken(variant, responses[i]) =>
            IF "status" \in DOMAIN responses[i].body
               /\ responses[i].body.status.type # "str"
            THEN /\ i = Len(responses)
                 /\ pc = "done" /\ raised = "AttributeError"
                 /\ returned = NoResult
                 /\ Len(sleeps) = i - 1
            ELSE TreatedAsRunning(i)

\* C20 witness: a body without a status key and a body with an empty status
\* were each followed by a sleep
C20_Witness ==
    /\ Len(responses) >= 2 /\ Len(sleeps) >= 2
    /\ responses[1] = [code |-> 200, body |-> Body(NoStatusKey, 1)]
    /\ responses[2] = [code |-> 200, body |-> Body(JStr(str_empty), 2)]

\* the decoded multi-period array of a payload from which the periods are
\* taken: the named fields are well shaped and the text of
\* MultipleBillingPeriods decodes to a list that is not empty
HasPeriodsArray(res) ==
    /\ Extractable(res)
    /\ "MultipleBillingPeriods" \in DOMAIN FieldMappingOf(res)
    /\ FieldMappingOf(res)["MultipleBillingPeriods"].type = "object"
    /\ "valueString" \in DOMAIN FieldMappingOf(res)["MultipleBillingPeriods"].members
    /\ FieldMappingOf(res)["MultipleBillingPeriods"].members["valueString"].type = "str"
    /\ JsonLoads(FieldMappingOf(res)["MultipleBillingPeriods"].members["valueString"]).ok
    /\ JsonLoads(FieldMappingOf(res)["MultipleBillingPeriods"].members["valueString"]).val.type = "list"
    /\ JsonLoads(FieldMappingOf(res)["MultipleBillingPeriods"].members["valueString"]).val.items # <<>>

PeriodsArray(res) ==
    JsonLoads(FieldMappingOf(res)["MultipleBillingPeriods"].members["valueString"]).val.items

\* the period and the consumption the claim gives for one object
NormalizedPeriod(m) ==
    [period |->
        IF "period" \in DOMAIN m THEN m["period"]
        ELSE IF key_date_zh \in DOMAIN m THEN m[key_date_zh]
        ELSE JStr(str_unknown),
     consumption |->
        IF "consumption" \in DOMAIN m THEN parse_consumption(m["consumption"])
        ELSE IF key_use_zh \in DOMAIN m THEN parse_consumption(m[key_use_zh])
        ELSE JFloat(0, 1)]

RECURSIVE NormalizedPeriods(_)
NormalizedPeriods(items) ==
    IF items = <<>> THEN <<>>
    ELSE LET rest == NormalizedPeriods(Tail(items))
         IN  IF items[1].type = "object"
             THEN <<NormalizedPeriod(items[1].members)>> \o rest
             ELSE rest

\* C21: for each object of the embedded multi-period array the normalized
\* period is the value under `period` if that key is present, else the value
\* under the alternate date key, else "Unknown"; the normalized consumption
\* is parse_consumption of the value under `consumption` if present, else
\* under the alternate consumption key, else 0; elements that are not
\* objects give no record.
C21_PeriodNormalization ==
    (runs >= 1 /\ HasPeriodsArray(main_result)) =>
        /\ ex_pc = "extracted"
        /\ standardized_data = JList(NormalizedPeriods(PeriodsArray(main_result)))

\* C21 witness: an object with both date keys gave the primary one, and the
\* number that follows it in the array gave no record
C21_Witness ==
    /\ runs >= 1
    /\ HasPeriodsArray(main_result)
    /\ Len(PeriodsArray(main_result)) = 2
    /\ key_date_zh \in DOMAIN PeriodsArray(main_result)[1].members
    /\ standardized_data =
          JList(<< [period |-> JStr(<<"a">>), consumption |-> JFloat(0, 1)] >>)

\* the text of MultipleBillingPeriods of a payload whose named fields are
\* well shaped
HasPeriodsText(res) ==
    /\ Extractable(res)
    /\ "MultipleBillingPeriods" \in DOMAIN FieldMappingOf(res)
    /\ FieldMappingOf(res)["MultipleBillingPeriods"].type = "object"
    /\ "valueString" \in DOMAIN FieldMappingOf(res)["MultipleBillingPeriods"].members
    /\ FieldMappingOf(res)["MultipleBillingPeriods"].members["valueString"].type = "str"

PeriodsText(res) ==
    FieldMappingOf(res)["MultipleBillingPeriods"].members["valueString"]

\* C22: when the text of MultipleBillingPeriods does not parse as JSON the
\* extraction does not fail: the raw text is put out as it is, no
\* standardized period list is produced, and the extraction of the document
\* ends normally with the two single fields.
C22_UnparsedTextSurfaced ==
    ( /\ runs >= 1
      /\ HasPeriodsText(main_result)
      /\ ~JsonLoads(PeriodsText(main_result)).ok ) =>
        /\ ex_pc = "extracted"
        /\ ex_raised = ""
        /\ raw_output = PeriodsText(main_result)
        /\ standardized_data = NoResult

\* C22 witness: a text cut in the middle of an object was put out raw
C22_Witness ==
    /\ runs >= 1
    /\ HasPeriodsText(main_result)
    /\ PeriodsText(main_result) = JStr(json_cut)
    /\ raw_output = JStr(json_cut)
    /\ ex_pc = "extracted"

\* the named field is missing, or is an object without the sub-key
Lacks(fields, name, sub) ==
    \/ name \notin DOMAIN fields
    \/ fields[name].type = "object" /\ sub \notin DOMAIN fields[name].members

\* nothing about MultipleBillingPeriods stops the extraction
PeriodsFieldSound(fields) ==
    /\ ~Misshapen(fields, "MultipleBillingPeriods")
    /\ ~PeriodsTextMisshapen(fields)

\* C23: when the field mapping exists and a named field is missing, or its
\* object lacks the expected sub-key (valueString for BillingPeriod,
\* valueNumber for ElectricityConsumption), that field alone becomes
\* "Not found", the other field keeps its extracted value, and the values are
\* produced for the document: by analyze_multi_periods as its two locals, by
\* analyze_all_bills as the record it appends.
C23_MissingFieldGivesSentinel ==
    ( /\ runs >= 1
      /\ Extractable(main_result)
      /\ \/ Lacks(FieldMappingOf(main_result), "BillingPeriod", "valueString")
         \/ Lacks(FieldMappingOf(main_result), "ElectricityConsumption", "valueNumber") ) =>
        /\ billing_period =
              Degraded(FieldMappingOf(main_result), "BillingPeriod", "valueString")
        /\ consumption =
              Degraded(FieldMappingOf(main_result), "ElectricityConsumption", "valueNumber")
        /\ Lacks(FieldMappingOf(main_result), "BillingPeriod", "valueString") =>
              billing_period = NotFound
        /\ Lacks(FieldMappingOf(main_result), "ElectricityConsumption", "valueNumber") =>
              consumption = NotFound
        /\ PeriodsFieldSound(FieldMappingOf(main_result)) =>
              ex_pc = "extracted" /\ ex_raised = ""
        /\ ExtractBill(main_result, loc_png) =
              [pc |-> "extracted",
               extracted_data |->
                   [filename |-> loc_png,
                    billing_period |-> billing_period,
                    electricity_consumption |-> consumption]]

\* C23 witness: BillingPeriod is missing and became "Not found" while the
\* consumption kept its number
C23_Witness ==
    /\ runs >= 1
    /\ Extractable(main_result)
    /\ "BillingPeriod" \notin DOMAIN FieldMappingOf(main_result)
    /\ billing_period = NotFound
    /\ consumption = JInt(1234)
    /\ ex_pc = "extracted"

\* C24: in create_multi_analyzer a 404 answer to the delete request is the
\* expected not-present outcome: the run does not abort, nothing is polled
\* for the delete, and create_analyzer is invoked exactly once afterwards;
\* the create step is reached in the same way after any other HTTP error
\* status on delete.
C24_DeleteNeverAborts ==
    /\ Len(deletes) <= 1
    /\ Len(creates) <= 1
    /\ prov_pc = "start" => deletes = <<>> /\ creates = <<>>
    /\ prov_pc = "create" =>
          /\ Len(deletes) = 1
          /\ creates = <<>>
          /\ prov_raised = ""
          /\ pc = "idle" /\ gets = 0
          /\ ENABLED ProvCreate
    /\ prov_pc \in {"poll", "done"} => Len(deletes) = 1 /\ Len(creates) = 1
    /\ (deletes # <<>> /\ deletes[1] = 404) => delete_report = "absent"
    /\ pc # "idle" =>
          /\ prov_pc \in {"poll", "done"}
          /\ submit_headers = create_response.headers

\* C24 witness: after a 404 on delete the analyzer was created once, polled
\* and reported ready
C24_Witness ==
    /\ prov_pc = "done"
    /\ deletes = <<404>>
    /\ Len(creates) = 1
    /\ prov_report = "ready"

\* the result of a payload has a field mapping with well-shaped fields
WellFormedResult(res) ==
    /\ HasFieldMapping(res)
    /\ ~Misshapen(FieldMappingOf(res), "BillingPeriod")
    /\ ~Misshapen(FieldMappingOf(res), "ElectricityConsumption")

\* C27 as stated: the driver's success test agrees with the poller's: every
\* payload that poll_result returns normally (its status is in the success
\* set in some letter case) is processed by analyze_all_bills as a success,
\* its fields extracted and recorded, never as a failed analysis.
C27_DriverAgreesWithPoller ==
    \A i \in DOMAIN outcomes :
        ( /\ outcomes[i].raised = ""
          /\ outcomes[i].returned # NoResult
          /\ WellFormedResult(outcomes[i].returned) ) =>
            \E j \in DOMAIN results : results[j].filename = outcomes[i].file

\* C26 as stated: whenever Settings validation passes and the client is
\* built from those settings, the one authorization header carries a usable
\* credential, a value that is neither empty nor a placeholder; with a
\* placeholder subscription key and a valid token it is the bearer header
\* with the token.
C26_UsableCredentialSent ==
    cfg_pc = "client" =>
        /\ "Ocp-Apim-Subscription-Key" \in DOMAIN client_headers =>
              client_headers["Ocp-Apim-Subscription-Key"] \notin {"", KeyPlaceholder}
        /\ "Authorization" \in DOMAIN client_headers =>
              /\ TokenUsable(cfg_args.aad_token)
              /\ client_headers["Authorization"] =
                    "Bearer " \o cfg_args.aad_token.val
        /\ ( /\ cfg_args.subscription_key = JStr(KeyPlaceholder)
             /\ TokenUsable(cfg_args.aad_token) ) =>
              "Authorization" \in DOMAIN client_headers

\* C28: poll_result never issues a GET in an iteration whose elapsed time,
\* measured at the top of that iteration from the start timestamp captured
\* once before the loop, is strictly greater than the timeout; when the
\* elapsed time equals the timeout the GET is still issued.
C28_NoGetPastTimeout ==
    [][ /\ pc # "idle" => start_time' = start_time
        /\ pc = "loop" =>
              /\ elapsed_time' = now - start_time
              /\ (elapsed_time' <= timeout_seconds) <=> (pc' = "get")
              /\ (elapsed_time' > timeout_seconds) <=> (raised' = "TimeoutError")
        /\ gets' = gets + 1 =>
              /\ pc = "get"
              /\ elapsed_time = now - start_time
              /\ elapsed_time <= timeout_seconds
        /\ gets' \in {gets, gets + 1}
        /\ (pc = "get" /\ gets < scriptLen) => ENABLED PollGet ]_vars

\* C28 witness: the second GET was issued at an elapsed time equal to the
\* timeout
C28_Witness ==
    /\ gets = 2
    /\ timeout_seconds > 0
    /\ elapsed_time = timeout_seconds

\* the most GETs the time budget allows
GetBound == timeout_seconds \div polling_interval_seconds + 1

\* the call is over with exactly one outcome, an exception of the set or the
\* returned success body
OneOutcomeOf(exceptions) ==
    \/ raised = "" /\ returned # NoResult /\ gets >= 1
          /\ returned = responses[gets].body
          /\ ClaimedSuccess(variant, returned)
    \/ raised \in exceptions /\ returned = NoResult

\* every call whose GETs are all answered comes to an end
AnsweredCallEnds == (pc # "idle" /\ scriptLen >= GetBound) ~> (pc = "done")

\* C29 as stated: every poll_result invocation terminates: with an interval
\* > 0, a finite timeout, a clock that advances by at least the interval per
\* sleep and GETs that always return, the loop reaches exactly one outcome
\* among the return of a success body, the failed-status error, TimeoutError,
\* HTTPError and the missing-operation-location error, after at most
\* floor(timeout / interval) + 1 GETs, whatever statuses the server reports.
C29_Original ==
    /\ [](pc # "idle" => gets <= GetBound)
    /\ [](pc = "get" => gets + 1 <= GetBound)
    /\ [](pc = "done" =>
            OneOutcomeOf({"RuntimeError", "TimeoutError", "HTTPError", "ValueError"}))
    /\ AnsweredCallEnds

\* C29 amended: the same, with one more outcome: a status that is present
\* but is not text (null, a number) ends the call with an AttributeError at
\* the GET that reported it.
C29_Amended ==
    /\ [](pc # "idle" => gets <= GetBound)
    /\ [](pc = "get" => gets + 1 <= GetBound)
    /\ [](pc = "done" =>
            OneOutcomeOf({"RuntimeError", "TimeoutError", "HTTPError", "ValueError",
                          "AttributeError"}))
    /\ [](raised = "AttributeError" =>
            /\ "status" \in DOMAIN responses[gets].body
            /\ responses[gets].body["status"].type # "str")
    /\ AnsweredCallEnds

\* C29 witness: a call ended by TimeoutError after as many GETs as the time
\* budget allows, three of them
C29_Witness ==
    /\ pc = "done"
    /\ raised = "TimeoutError"
    /\ gets = GetBound
    /\ gets = 3

\* the outcome of a finished poll_result call, told from the GET responses
\* and the elapsed-time readings of the call itself
OwnOutcome(f) ==
    LET n == Len(f.responses)
        late == f.readings # <<>> /\ f.readings[Len(f.readings)] > BatchTimeout
        status == Lower(DictGet(f.responses[n].body, "status", JStr(str_empty)).val)
    IN  IF late THEN f.raised = "TimeoutError" /\ f.returned = NoResult
        ELSE /\ n >= 1
             /\ IF f.responses[n].code >= 400
                THEN f.raised = "HTTPError" /\ f.returned = NoResult
                ELSE IF status = str_succeeded
                THEN f.raised = "" /\ f.returned = f.responses[n].body
                ELSE /\ status = str_failed
                     /\ f.raised = "RuntimeError" /\ f.returned = NoResult

\* thread i has only its own locals: its own operation location, GETs to
\* that location only, answers meant for it, and elapsed times counted from
\* its own start
OwnLocals(i) ==
    LET f == frames[i]
    IN  /\ f.pc \in {"loop", "get", "sleep", "sleeping"}
            => f.operation_location = OpUrl(i)
        /\ \A k \in 1..Len(f.urls) : f.urls[k] = OpUrl(i)
        /\ \A k \in 1..Len(f.responses) : f.responses[k] \in ThreadResponses(i, k)
        /\ \A k \in 1..Len(f.readings) :
              f.readings[k] >= 0 /\ f.readings[k] <= clock - f.start_time
        /\ f.pc = "done" /\ f.operation_location # str_empty => OwnOutcome(f)

\* a step of one thread: the other thread's locals stay as they are, the
\* client's headers stay as they are, and a call that enters poll_result
\* takes the time of its own entry as its start
OneThreadSteps ==
    /\ client_headers' = client_headers
    /\ \A i \in Threads :
          frames'[i] # frames[i] =>
            /\ \A j \in Threads \ {i} : frames'[j] = frames[j]
            /\ frames[i].pc = "submitted" /\ frames'[i].pc = "loop"
                 => frames'[i].start_time = clock
            /\ frames[i].pc \in {"loop", "get", "sleep", "sleeping"}
                 => /\ frames'[i].start_time = frames[i].start_time
                    /\ frames'[i].operation_location = frames[i].operation_location

\* C25: two poll_result invocations running concurrently on the same client
\* do not interfere: each keeps its own start timestamp and operation
\* location, the client's header set is the same before and after any
\* interleaving of begin_analyze and poll_result steps, and the outcome of
\* each invocation depends only on its own responses and its own elapsed
\* time.
C25_NoInterference ==
    /\ [](/\ client_headers =
               GetHeaders(settings.subscription_key,
                          CallProvider(TokenProvider(settings.aad_token)),
                          DefaultUserAgent)
          /\ \A i \in Threads : OwnLocals(i))
    /\ [][OneThreadSteps]_vars

\* both calls have run side by side and ended differently: the first
\* started at time 0 and returned the body of its second GET, the second
\* started at time 1, while the first was asleep, and ran out of time
C25_Witness ==
    /\ frames[1].pc = "done" /\ frames[2].pc = "done"
    /\ frames[1].start_time = 0 /\ frames[2].start_time = 1
    /\ Len(frames[1].responses) = 2
    /\ frames[1].returned = frames[1].responses[2].body
    /\ frames[2].raised = "TimeoutError"
    /\ Len(frames[2].responses) = 1
    /\ frames[1].readings = <<0, 2>>
    /\ frames[2].readings = <<0, 3>>
    /\ "Content-Type" \in DOMAIN frames[1].headers
    /\ "Content-Type" \notin DOMAIN client_headers

====
